---- MODULE Spec2Model ----
(***************************************************************************)
(* Model of the featurescripts sync engine: SyncState (state.py),          *)
(* SyncOperations pull/push (operations.py), the reference policy check    *)
(* (references.py, working.py) and the exit codes of the commands          *)
(* (main.py).                                                              *)
(*                                                                         *)
(* The per-file handlers _pull_feature_studio and _push_feature_studio are *)
(* split at the points where they touch the remote, the local file tree or *)
(* the state file, so that a crash or another party's edit can land        *)
(* between two of those effects.                                           *)
(***************************************************************************)
EXTENDS Integers, Sequences, FiniteSets, TLC

\* ------------------------------------------------------------------ bounds
MaxContent == 2     \* distinct file contents 1..MaxContent
MaxVersion == 3     \* microversion tokens 1..MaxVersion per workspace
MaxClock   == 2     \* distinct values of the backup timestamp (seconds)
MaxRuns    == 3     \* commands (pull/push runs) started in one behaviour
MaxEdits   == 2     \* edits by the user and by other parties in one behaviour
MaxCrashes == 1     \* crashes in one behaviour
MaxEvents  == 2     \* edits and crashes together in one behaviour
MaxFaults  == 2     \* local I/O calls that raise in one behaviour
MaxDepth   == 2     \* components in a local path handed to the policy layer
MaxRefs    == 2     \* configured references
MaxRecursion == 12   \* frames the interpreter allows before RecursionError
MaxNameLen == 3     \* characters in an element name

\* --------------------------------------------------------- program constants
backup_on_pull == TRUE          \* SyncSettings.backup_on_pull default

\* ConflictType
NONE           == "none"
BOTH_CHANGED   == "both_changed"
LOCAL_DELETED  == "local_deleted"

\* ------------------------------------------------------------- the universe
\* Two document directories, d1 and d2; x.fs exists in both, so two tracked
\* paths share a leaf name.  d1 holds two elements of one workspace.

\* the remote hierarchies a behaviour is run against: two elements of one
\* workspace, two documents whose elements have the same name, or the single
\* document of a working project
Layouts == {{"d1/x.fs", "d1/y.fs"}, {"d1/x.fs", "d2/x.fs"}, {"d2/x.fs"}}

Docs == {"d1", "d2"}

\* document (and its workspace) that holds the element behind a local path
DocOf(f) == IF f = "d2/x.fs" THEN "d2" ELSE "d1"

\* how the configuration names the document: d1 is found through a configured
\* folder (config.folders), d2 is a configured document (config.documents);
\* a working project is turned into one folder or one document entry
ConfiguredAs(d) == IF d = "d2" THEN "document" ELSE "folder"

\* Path.stem of the local file
Stem(f) == IF f = "d1/y.fs" THEN "y" ELSE "x"

\* element id recorded for the path
ElementOf(f) == <<"e", f>>

Contents == 1..MaxContent
Absent   == 0                   \* local file does not exist
Truncated == -1                 \* local file exists with no bytes in it
None     == <<>>                \* Python None

VARIABLES
    elems,          \* the elements that exist remotely, named by their local path
    remoteContent,  \* [elems -> Contents]   element contents held by the remote
    remoteVer,      \* [Docs -> 1..MaxVersion] microversion of each workspace
    local,          \* [elems -> Contents \cup {Absent}] local file tree
    mem,            \* SyncState._state: [loaded, files]
    disk,           \* .sync-state.json: [ok, files]; ok = FALSE when truncated
    backups,        \* backup directory: backup name -> the bytes copied (whose, which)
    clock,          \* datetime.now() at the resolution of the backup name
    run,            \* the command in progress (pull_all / push_all)
    op,             \* the per-file operation in progress
    hist,           \* observations of the behaviour so far (not program state)
    pol,            \* the policy layer call in progress (push_working_directory)
    det,            \* a direct call of the conflict detector (SyncState methods)
    sidecar,        \* .document.json of each document directory and the files it maps
    proj,           \* the working project's last_pull / last_push
    walk,           \* list_folder_documents in progress: the recursion stack
    codec,          \* a structure on its way through to_dict / json / from_dict
    names,          \* one document directory with the names of its elements
    dirs            \* the local directories that exist: ".", "d1", "d2"

vars == <<elems, remoteContent, remoteVer, local, mem, disk, backups, clock, run, op, hist, pol, det, sidecar, proj, walk, codec, names, dirs>>

\* ---------------------------------------------------------------- helpers
EmptyMap == [f \in {} |-> None]

\* dict assignment d[k] = v
Put(d, k, v) == [x \in (DOMAIN d) \cup {k} |-> IF x = k THEN v ELSE d[x]]

RECURSIVE SeqFilter(_, _)
SeqFilter(s, S) ==
    IF s = <<>> THEN <<>>
    ELSE IF Head(s) \in S THEN <<Head(s)>> \o SeqFilter(Tail(s), S)
         ELSE SeqFilter(Tail(s), S)

\* ------------------------------------------------------------ state.py
\* SyncState.compute_hash: SHA-256 of the content (injective on Contents)
compute_hash(c) == <<"sha256", c>>

\* hash_file that reads a missing file as an empty one
hash_file_MissingAsEmpty(f) == compute_hash(local[f])

\* SyncState.hash_file: None when the file does not exist
hash_file(f) == IF local[f] = Absent THEN None ELSE compute_hash(local[f])

\* FileState as built by update_file_state (last_sync is not compared by any
\* decision of the engine and is left out)
FileState(h, v, f) ==
    [local_hash |-> h, remote_microversion |-> v,
     element_id |-> ElementOf(f), document_id |-> DocOf(f), workspace_id |-> DocOf(f)]

\* SyncState.get_file_state on a files mapping
get_file_state(files, f) == IF f \in DOMAIN files THEN files[f] ELSE None

\* update_file_state that rebuilds the mapping with the one entry it writes
update_file_state_Replaces(files, f, h, v) == Put(EmptyMap, f, FileState(h, v, f))

\* SyncState.update_file_state on a files mapping
update_file_state(files, f, h, v) == Put(files, f, FileState(h, v, f))

\* SyncState.remove_file_state on a files mapping: files.pop(filepath, None).
\* No command calls it.
remove_file_state(files, f) == [g \in (DOMAIN files) \ {f} |-> files[g]]

ConflictInfo(t, m) == [conflict_type |-> t, message |-> m]

\* detect_pull_conflict that treats an untracked path with a local file in
\* the way as a conflict
detect_pull_conflict_NewFileChecksLocal(previous_state, current_hash, remote_microversion) ==
    IF previous_state = None
    THEN IF current_hash # None
         THEN ConflictInfo(BOTH_CHANGED,
                  "Both local and remote have changes - manual resolution required")
         ELSE ConflictInfo(NONE, "New file, safe to pull")
    ELSE LET local_changed  == current_hash # previous_state.local_hash
             remote_changed == remote_microversion # previous_state.remote_microversion
         IN  IF current_hash = None
             THEN IF remote_changed
                  THEN ConflictInfo(LOCAL_DELETED, "Local file deleted but remote has changes")
                  ELSE ConflictInfo(NONE, "Local deleted, remote unchanged - safe to skip or restore")
             ELSE IF local_changed /\ remote_changed
             THEN ConflictInfo(BOTH_CHANGED,
                      "Both local and remote have changes - manual resolution required")
             ELSE IF local_changed
             THEN ConflictInfo(NONE, "Warning: Local changes will be overwritten")
             ELSE ConflictInfo(NONE, IF remote_changed THEN "Safe to pull" ELSE "Already in sync")

\* detect_pull_conflict with the two messages of its last return swapped
detect_pull_conflict_SwappedMessages(previous_state, current_hash, remote_microversion) ==
    IF previous_state = None
    THEN ConflictInfo(NONE, "New file, safe to pull")
    ELSE LET local_changed  == current_hash # previous_state.local_hash
             remote_changed == remote_microversion # previous_state.remote_microversion
         IN  IF current_hash = None
             THEN IF remote_changed
                  THEN ConflictInfo(LOCAL_DELETED, "Local file deleted but remote has changes")
                  ELSE ConflictInfo(NONE, "Local deleted, remote unchanged - safe to skip or restore")
             ELSE IF local_changed /\ remote_changed
             THEN ConflictInfo(BOTH_CHANGED,
                      "Both local and remote have changes - manual resolution required")
             ELSE IF local_changed
             THEN ConflictInfo(NONE, "Warning: Local changes will be overwritten")
             ELSE ConflictInfo(NONE, IF remote_changed THEN "Already in sync" ELSE "Safe to pull")

\* detect_pull_conflict without its "both changed" branch: a file changed on
\* both sides is treated like one changed locally only
detect_pull_conflict_NoBothChanged(previous_state, current_hash, remote_microversion) ==
    IF previous_state = None
    THEN ConflictInfo(NONE, "New file, safe to pull")
    ELSE LET local_changed  == current_hash # previous_state.local_hash
             remote_changed == remote_microversion # previous_state.remote_microversion
         IN  IF current_hash = None
             THEN IF remote_changed
                  THEN ConflictInfo(LOCAL_DELETED, "Local file deleted but remote has changes")
                  ELSE ConflictInfo(NONE, "Local deleted, remote unchanged - safe to skip or restore")
             ELSE IF local_changed
             THEN ConflictInfo(NONE, "Warning: Local changes will be overwritten")
             ELSE ConflictInfo(NONE, IF remote_changed THEN "Safe to pull" ELSE "Already in sync")
\* detect_pull_conflict that blocks a pull as soon as the remote moved
detect_pull_conflict_RemoteChangeBlocks(previous_state, current_hash, remote_microversion) ==
    IF previous_state = None
    THEN ConflictInfo(NONE, "New file, safe to pull")
    ELSE IF remote_microversion # previous_state.remote_microversion
    THEN ConflictInfo(BOTH_CHANGED,
             "Both local and remote have changes - manual resolution required")
    ELSE ConflictInfo(NONE, "Already in sync")

\* detect_pull_conflict that blocks a pull as soon as the local file was edited
detect_pull_conflict_LocalChangeBlocks(previous_state, current_hash, remote_microversion) ==
    IF previous_state = None
    THEN ConflictInfo(NONE, "New file, safe to pull")
    ELSE IF current_hash # previous_state.local_hash
    THEN ConflictInfo(BOTH_CHANGED,
             "Both local and remote have changes - manual resolution required")
    ELSE ConflictInfo(NONE, IF remote_microversion # previous_state.remote_microversion
                            THEN "Safe to pull" ELSE "Already in sync")

\* SyncState.detect_pull_conflict(previous_state, current_hash, remote_microversion)
detect_pull_conflict(previous_state, current_hash, remote_microversion) ==
    IF previous_state = None
    THEN ConflictInfo(NONE, "New file, safe to pull")
    ELSE LET local_changed  == current_hash # previous_state.local_hash
             remote_changed == remote_microversion # previous_state.remote_microversion
         IN  IF current_hash = None
             THEN IF remote_changed
                  THEN ConflictInfo(LOCAL_DELETED, "Local file deleted but remote has changes")
                  ELSE ConflictInfo(NONE, "Local deleted, remote unchanged - safe to skip or restore")
             ELSE IF local_changed /\ remote_changed
             THEN ConflictInfo(BOTH_CHANGED,
                      "Both local and remote have changes - manual resolution required")
             ELSE IF local_changed
             THEN ConflictInfo(NONE, "Warning: Local changes will be overwritten")
             ELSE ConflictInfo(NONE, IF remote_changed THEN "Safe to pull" ELSE "Already in sync")

\* SyncState.state property after the lazy load
LoadedFiles == IF mem.loaded THEN mem.files ELSE disk.files

\* detect_push_conflict that reports a changed remote only when the local
\* file was edited as well, as detect_pull_conflict does
detect_push_conflict_LocalAware(filepath, remote_microversion) ==
    LET previous_state == get_file_state(LoadedFiles, filepath)
    IN  IF previous_state = None
        THEN ConflictInfo(NONE, "New file, safe to push")
        ELSE IF /\ remote_microversion # previous_state.remote_microversion
                /\ hash_file(filepath) # previous_state.local_hash
        THEN ConflictInfo(BOTH_CHANGED,
                 "Remote has changed since last sync - use --force to override")
        ELSE ConflictInfo(NONE, "Safe to push")

\* detect_push_conflict that does not look the tracked state up
detect_push_conflict_NoLookup(filepath, remote_microversion) ==
    ConflictInfo(NONE, "New file, safe to push")

\* detect_push_conflict with the version comparison inverted
detect_push_conflict_Inverted(filepath, remote_microversion) ==
    LET previous_state == get_file_state(LoadedFiles, filepath)
    IN  IF previous_state = None
        THEN ConflictInfo(NONE, "New file, safe to push")
        ELSE IF remote_microversion = previous_state.remote_microversion
        THEN ConflictInfo(BOTH_CHANGED,
                 "Remote has changed since last sync - use --force to override")
        ELSE ConflictInfo(NONE, "Safe to push")

\* SyncState.detect_push_conflict(filepath, remote_microversion): the
\* tracked state of the path is looked up in the loaded store; the method is
\* given neither the local path nor a hash
detect_push_conflict(filepath, remote_microversion) ==
    LET previous_state == get_file_state(LoadedFiles, filepath)
    IN  IF previous_state = None
        THEN ConflictInfo(NONE, "New file, safe to push")
        ELSE IF remote_microversion # previous_state.remote_microversion
        THEN ConflictInfo(BOTH_CHANGED,
                 "Remote has changed since last sync - use --force to override")
        ELSE ConflictInfo(NONE, "Safe to push")

\* the state property raises iff SyncState._load_state does: a missing file
\* and an empty mapping load alike, json.load on a truncated file raises
StateRaises == ~mem.loaded /\ ~disk.ok


\* ------------------------------------------------------- operations.py
\* SyncResult
SyncResult(success, message, conflict, skipped) ==
    [success |-> success, message |-> message, conflict |-> conflict, skipped |-> skipped]

NoRun  == [kind |-> "none", force |-> FALSE, dry |-> FALSE, pre |-> "clear", docs |-> <<>>,
           todo |-> <<>>, meta |-> {}, outcomes |-> EmptyMap]
IdleOp == [kind |-> "none", file |-> "", pc |-> "idle", content |-> Absent, ver |-> 0,
           conflict |-> "unchecked", message |-> "", xfer |-> FALSE]

Unloaded == [loaded |-> FALSE, files |-> EmptyMap]

\* a command or an edit by somebody else disturbs the quiet the idempotence
\* and recovery claims assume
Disturb(h) == [h EXCEPT !.calm = FALSE, !.disturbed = TRUE, !.crashedPull = "",
                          !.nEdits = h.nEdits + 1]

\* the per-file handler returns `result`
Return(result) ==
    /\ op'  = [op EXCEPT !.pc = "done"]
    /\ run' = [run EXCEPT !.outcomes = Put(run.outcomes, op.file, result)]

\* WorkingDirectoryManager._check_pull_conflicts, the check the project pull
\* makes before pull_all: for every local file it looks the tracked state up
\* (which loads the state file) and, when there is one, calls
\* ops._compute_file_hash, a method SyncOperations does not have.  So the
\* check raises as soon as a local file is tracked or the state file does not
\* load, and returns no conflict otherwise.
check_pull_conflicts ==
    IF \E f \in elems : local[f] # Absent /\ (~disk.ok \/ f \in DOMAIN disk.files)
    THEN "raised" ELSE "clear"

\* WorkingDirectoryManager._check_push_conflicts returns no conflict
check_push_conflicts == "clear"

\* a document directory without .document.json
NoSidecar == [exists |-> FALSE, ok |-> FALSE, feature_studios |-> {}]

\* .document.json opened for writing and not written: json.load raises on it
TruncatedSidecar == [exists |-> TRUE, ok |-> FALSE, feature_studios |-> {}]

\* the elements of a document
FilesOf(d) == {f \in elems : DocOf(f) = d}

\* the orders in which list_elements or a glob may yield a set of files
Orders(S) ==
    {o \in [1..Cardinality(S) -> S] : \A i, j \in 1..Cardinality(S) : i # j => o[i] # o[j]}

\* config.folders then config.documents, as pull_all / push_all go through
\* them: the configured folder (local_path ".") and the configured document
ConfigItems ==
    (IF \E f \in elems : ConfiguredAs(DocOf(f)) = "folder" THEN <<".">> ELSE <<>>)
    \o (IF \E f \in elems : ConfiguredAs(DocOf(f)) = "document" THEN <<"d2">> ELSE <<>>)

\* the loop of pull_all / push_all is between two documents
BetweenDocuments ==
    /\ run.kind \in {"pull", "push"}
    /\ op.pc \in {"idle", "done"}
    /\ run.todo = <<>>
    /\ run.meta = {}
    /\ run.docs # <<>>

\* _load_document_metadata(...).feature_studios.get(element_name): the element
\* id the sidecar of the file's directory maps the file's name to, if any
SidecarId(f) ==
    IF sidecar[DocOf(f)].ok /\ f \in sidecar[DocOf(f)].feature_studios
    THEN ElementOf(f) ELSE None

\* where a push takes the element id of a local file from: the sidecar map
\* (_push_document_folder), or, for a configured document, the name_to_id
\* map built from the live list_elements (push_document)
ElementIdSource(f) == IF ConfiguredAs(DocOf(f)) = "folder" THEN "sidecar" ELSE "listing"

\* a command starts: SyncOperations.__init__ builds a fresh SyncState, then
\* pull_all / push_all go through the configured folders and documents
StartRun(kind, force, dry) ==
    /\ run.kind = "none"
    /\ hist.nRuns < MaxRuns
    /\ mem' = Unloaded
    /\ op'  = IdleOp
    /\ run' = [kind |-> kind, force |-> force, dry |-> dry,
               pre  |-> IF force \/ dry THEN "clear"
                        ELSE IF kind = "pull" THEN check_pull_conflicts
                        ELSE check_push_conflicts,
               docs |-> ConfigItems,
               todo |-> <<>>,
               meta |-> {},
               outcomes |-> EmptyMap]
    /\ hist' = [hist EXCEPT !.nRuns = hist.nRuns + 1,
                            !.writes = 0,
                            !.copies = 0,
                            !.xferred = {},
                            !.disk0 = disk,
                            !.startedCalm = hist.calm /\ kind = "pull",
                            !.disturbed = FALSE,
                            !.recovering = IF kind = "pull" /\ ~force /\ ~dry
                                           THEN hist.crashedPull ELSE "",
                            !.crashedPull = "",
                            !.calm = FALSE]
    /\ UNCHANGED <<elems, remoteContent, remoteVer, local, disk, backups, clock, pol, det, sidecar, proj, walk, codec, names, dirs>>

\* pull_folder: list_folder_documents answers the documents of the folder, or
\* raises, which gives one failed result for the folder's local_path
pull_folder ==
    /\ BetweenDocuments /\ run.kind = "pull" /\ Head(run.docs) = "."
    /\ \/ run' = [run EXCEPT !.docs = <<"d1">> \o Tail(run.docs)]
       \/ run' = [run EXCEPT !.docs = Tail(run.docs),
                             !.outcomes = Put(run.outcomes, ".",
                                              SyncResult(FALSE, "Failed to list folder",
                                                         FALSE, FALSE))]
    /\ UNCHANGED <<elems, remoteContent, remoteVer, local, mem, disk, backups, clock, op, hist,
                   pol, det, sidecar, proj, walk, codec, names, dirs>>

\* _pull_document_to_folder up to its loop: get_default_workspace and
\* list_elements (or their exception: one failed result for the directory),
\* the dry-run branch, local_dir.mkdir(parents=True)
pull_document_to_folder ==
    /\ BetweenDocuments /\ run.kind = "pull"
    /\ Head(run.docs) \in Docs /\ ConfiguredAs(Head(run.docs)) = "folder"
    /\ \/ /\ \E o \in Orders(FilesOf(Head(run.docs))) :
                run' = [run EXCEPT !.docs = Tail(run.docs),
                                   !.todo = o,
                                   !.meta = IF run.dry THEN {} ELSE {Head(run.docs)}]
          /\ dirs' = IF run.dry THEN dirs ELSE dirs \cup {".", Head(run.docs)}
       \/ /\ run' = [run EXCEPT !.docs = Tail(run.docs),
                                !.outcomes = Put(run.outcomes, Head(run.docs),
                                                 SyncResult(FALSE, "Failed to pull document",
                                                            FALSE, FALSE))]
          /\ UNCHANGED dirs
    /\ UNCHANGED <<elems, remoteContent, remoteVer, local, mem, disk, backups, clock, op, hist,
                   pol, det, sidecar, proj, walk, codec, names>>

\* pull_document up to its loop: list_elements, or its exception
pull_document ==
    /\ BetweenDocuments /\ run.kind = "pull"
    /\ Head(run.docs) \in Docs /\ ConfiguredAs(Head(run.docs)) = "document"
    /\ \/ \E o \in Orders(FilesOf(Head(run.docs))) :
             run' = [run EXCEPT !.docs = Tail(run.docs), !.todo = o]
       \/ run' = [run EXCEPT !.docs = Tail(run.docs),
                             !.outcomes = Put(run.outcomes, Head(run.docs),
                                              SyncResult(FALSE, "Failed to list elements",
                                                         FALSE, FALSE))]
    /\ UNCHANGED <<elems, remoteContent, remoteVer, local, mem, disk, backups, clock, op, hist,
                   pol, det, sidecar, proj, walk, codec, names, dirs>>

\* push_folder: local_root must exist; then the directories below it that
\* hold a .document.json
push_folder ==
    /\ BetweenDocuments /\ run.kind = "push" /\ Head(run.docs) = "."
    /\ run' = IF "." \notin dirs
              THEN [run EXCEPT !.docs = Tail(run.docs),
                               !.outcomes = Put(run.outcomes, ".",
                                                SyncResult(FALSE, "Local path not found",
                                                           FALSE, FALSE))]
              ELSE [run EXCEPT !.docs = SeqFilter(<<"d1">>, {d \in Docs : sidecar[d].exists})
                                        \o Tail(run.docs)]
    /\ UNCHANGED <<elems, remoteContent, remoteVer, local, mem, disk, backups, clock, op, hist,
                   pol, det, sidecar, proj, walk, codec, names, dirs>>

\* _push_document_folder up to its loop: the sidecar is loaded and the
\* directory globbed
push_document_folder ==
    /\ BetweenDocuments /\ run.kind = "push"
    /\ Head(run.docs) \in Docs /\ ConfiguredAs(Head(run.docs)) = "folder"
    /\ sidecar[Head(run.docs)].ok
    /\ \E o \in Orders({f \in FilesOf(Head(run.docs)) : local[f] # Absent}) :
          run' = [run EXCEPT !.docs = Tail(run.docs), !.todo = o]
    /\ UNCHANGED <<elems, remoteContent, remoteVer, local, mem, disk, backups, clock, op, hist,
                   pol, det, sidecar, proj, walk, codec, names, dirs>>

\* push_document up to its loop: local_dir must exist, then list_elements
\* (or its exception: one failed result for the local_path), then the glob
push_document ==
    /\ BetweenDocuments /\ run.kind = "push"
    /\ Head(run.docs) \in Docs /\ ConfiguredAs(Head(run.docs)) = "document"
    /\ IF Head(run.docs) \notin dirs
       THEN run' = [run EXCEPT !.docs = Tail(run.docs),
                               !.outcomes = Put(run.outcomes, Head(run.docs),
                                                SyncResult(FALSE, "Local directory not found",
                                                           FALSE, FALSE))]
       ELSE \/ \E o \in Orders({f \in FilesOf(Head(run.docs)) : local[f] # Absent}) :
                  run' = [run EXCEPT !.docs = Tail(run.docs), !.todo = o]
            \/ run' = [run EXCEPT !.docs = Tail(run.docs),
                                  !.outcomes = Put(run.outcomes, Head(run.docs),
                                                   SyncResult(FALSE, "Failed", FALSE, FALSE))]
    /\ UNCHANGED <<elems, remoteContent, remoteVer, local, mem, disk, backups, clock, op, hist,
                   pol, det, sidecar, proj, walk, codec, names, dirs>>

\* _pull_document_to_folder has gone through the elements of document d and
\* is about to write the directory's .document.json
MetadataDue(d) ==
    /\ d \in run.meta
    /\ op.pc \in {"idle", "done"}
    /\ \A i \in 1..Len(run.todo) : DocOf(run.todo[i]) # d

\* _pull_document_to_folder, dry_run branch: one skipped result per element
PullDryRun ==
    /\ run.kind = "pull" /\ run.dry
    /\ op.pc \in {"idle", "done"}
    /\ run.todo # <<>>
    /\ ConfiguredAs(DocOf(Head(run.todo))) = "folder"
    /\ run' = [run EXCEPT !.todo = Tail(run.todo),
                          !.outcomes = Put(run.outcomes, Head(run.todo),
                                           SyncResult(TRUE, "[DRY RUN] Would pull", FALSE, TRUE))]
    /\ UNCHANGED <<elems, remoteContent, remoteVer, local, mem, disk, backups, clock, op, hist, pol, det, sidecar, proj, walk, codec, names, dirs>>

\* the loop that hands every local file to the per-file handler, mapped by the
\* sidecar or not
BeginFile_IgnoresSidecar ==
    /\ run.kind \in {"pull", "push"}
    /\ op.pc \in {"idle", "done"}
    /\ run.todo # <<>>
    /\ ~(run.kind = "pull" /\ run.dry /\ ConfiguredAs(DocOf(Head(run.todo))) = "folder")
    /\ \A d \in Docs : ~MetadataDue(d)
    /\ op'  = [IdleOp EXCEPT !.kind = run.kind, !.file = Head(run.todo), !.pc = "begin"]
    /\ run' = [run EXCEPT !.todo = Tail(run.todo)]
    /\ UNCHANGED <<elems, remoteContent, remoteVer, local, mem, disk, backups, clock, hist, pol,
                   det, sidecar, proj, walk, codec, names, dirs>>

\* the loop over elements / local files calls the per-file handler.  For a
\* configured document pull_document calls it whatever dry_run is.
BeginFile ==
    /\ run.kind \in {"pull", "push"}
    /\ op.pc \in {"idle", "done"}
    /\ run.todo # <<>>
    /\ ~(run.kind = "pull" /\ run.dry /\ ConfiguredAs(DocOf(Head(run.todo))) = "folder")
    /\ ~(run.kind = "push" /\ ElementIdSource(Head(run.todo)) = "sidecar"
                           /\ SidecarId(Head(run.todo)) = None)
    /\ \A d \in Docs : ~MetadataDue(d)
    /\ op'  = [IdleOp EXCEPT !.kind = run.kind, !.file = Head(run.todo), !.pc = "begin"]
    /\ run' = [run EXCEPT !.todo = Tail(run.todo)]
    /\ UNCHANGED <<elems, remoteContent, remoteVer, local, mem, disk, backups, clock, hist, pol, det, sidecar, proj, walk, codec, names, dirs>>

\* _pull_document_to_folder after its loop: _save_document_metadata writes the
\* sidecar with the elements whose result in this run has success = true
SaveDocumentMetadata(d) ==
    /\ MetadataDue(d)
    /\ sidecar' = [sidecar EXCEPT ![d] =
                      [exists |-> TRUE, ok |-> TRUE,
                       feature_studios |-> {f \in elems : /\ DocOf(f) = d
                                                          /\ f \in DOMAIN run.outcomes
                                                          /\ run.outcomes[f].success}]]
    /\ run' = [run EXCEPT !.meta = run.meta \ {d}]
    /\ UNCHANGED <<elems, remoteContent, remoteVer, local, mem, disk, backups, clock, op, hist,
                   pol, det, proj, walk, codec, names, dirs>>

\* _push_document_folder: a local file whose name the sidecar does not map
\* gets a failed result and the loop goes on; no call to the remote is made
PushUnmapped ==
    /\ run.kind = "push"
    /\ op.pc \in {"idle", "done"}
    /\ run.todo # <<>>
    /\ ElementIdSource(Head(run.todo)) = "sidecar"
    /\ SidecarId(Head(run.todo)) = None
    /\ run' = [run EXCEPT !.todo = Tail(run.todo),
                          !.outcomes = Put(run.outcomes, Head(run.todo),
                                           SyncResult(FALSE, "No element ID found - pull first",
                                                      FALSE, FALSE))]
    /\ UNCHANGED <<elems, remoteContent, remoteVer, local, mem, disk, backups, clock, op, hist,
                   pol, det, sidecar, proj, walk, codec, names, dirs>>

\* the fetch step whose exception is not caught per file and ends the batch
PullFetch_FailureAborts ==
    /\ op.kind = "pull" /\ op.pc = "begin"
    /\ \/ /\ op' = [op EXCEPT !.pc = "fetched",
                              !.content = remoteContent[op.file],
                              !.ver = remoteVer[DocOf(op.file)]]
          /\ UNCHANGED run
       \/ /\ op'  = [op EXCEPT !.pc = "done"]
          /\ run' = [run EXCEPT !.todo = <<>>,
                                !.outcomes = Put(run.outcomes, op.file,
                                                 SyncResult(FALSE, "Failed", FALSE, FALSE))]
    /\ UNCHANGED <<elems, remoteContent, remoteVer, local, mem, disk, backups, clock, hist, pol, det, sidecar, proj, walk, codec, names, dirs>>

\* _pull_feature_studio: get_featurestudio_contents (or its exception)
PullFetch ==
    /\ op.kind = "pull" /\ op.pc = "begin"
    /\ \/ /\ op' = [op EXCEPT !.pc = "fetched",
                              !.content = remoteContent[op.file],
                              !.ver = remoteVer[DocOf(op.file)]]
          /\ UNCHANGED run
       \/ Return(SyncResult(FALSE, "Failed", FALSE, FALSE))
    /\ UNCHANGED <<elems, remoteContent, remoteVer, local, mem, disk, backups, clock, hist, pol, det, sidecar, proj, walk, codec, names, dirs>>

\* the pull conflict check that is made, and blocks, whatever the force flag is
PullCheck_ForceStillChecks ==
    /\ op.kind = "pull" /\ op.pc = "fetched"
    /\ IF StateRaises
       THEN /\ Return(SyncResult(FALSE, "Failed", FALSE, FALSE))
            /\ UNCHANGED mem
       ELSE LET conflict == detect_pull_conflict(get_file_state(LoadedFiles, op.file),
                                                 hash_file(op.file), op.ver)
            IN  /\ mem' = [loaded |-> TRUE, files |-> LoadedFiles]
                /\ IF conflict.conflict_type = BOTH_CHANGED
                   THEN /\ op'  = [op EXCEPT !.pc = "done", !.conflict = conflict.conflict_type,
                                             !.message = conflict.message]
                        /\ run' = [run EXCEPT !.outcomes =
                                      Put(run.outcomes, op.file,
                                          SyncResult(FALSE, conflict.message, TRUE, FALSE))]
                   ELSE /\ op' = [op EXCEPT !.pc = "checked", !.conflict = conflict.conflict_type,
                                            !.message = conflict.message]
                        /\ UNCHANGED run
    /\ UNCHANGED <<elems, remoteContent, remoteVer, local, disk, backups, clock, hist, pol, det,
                   sidecar, proj, walk, codec, names, dirs>>

\* _pull_feature_studio: the conflict check, skipped with force
PullCheck ==
    /\ op.kind = "pull" /\ op.pc = "fetched"
    /\ IF run.force
       THEN /\ op' = [op EXCEPT !.pc = "checked"]
            /\ UNCHANGED <<run, mem>>
       ELSE IF StateRaises
       THEN /\ Return(SyncResult(FALSE, "Failed", FALSE, FALSE))
            /\ UNCHANGED mem
       ELSE LET conflict == detect_pull_conflict(get_file_state(LoadedFiles, op.file),
                                                 hash_file(op.file), op.ver)
            IN  /\ mem' = [loaded |-> TRUE, files |-> LoadedFiles]
                /\ IF conflict.conflict_type = BOTH_CHANGED
                   THEN /\ op'  = [op EXCEPT !.pc = "done", !.conflict = conflict.conflict_type,
                                             !.message = conflict.message]
                        /\ run' = [run EXCEPT !.outcomes =
                                      Put(run.outcomes, op.file,
                                          SyncResult(FALSE, conflict.message, TRUE, FALSE))]
                   ELSE /\ op' = [op EXCEPT !.pc = "checked", !.conflict = conflict.conflict_type,
                                            !.message = conflict.message]
                        /\ UNCHANGED run
    /\ UNCHANGED <<elems, remoteContent, remoteVer, local, disk, backups, clock, hist, pol, det, sidecar, proj, walk, codec, names, dirs>>

\* _backup_file: copy2 to <backup_dir>/<stem>_<timestamp><suffix>
BackupName(f) == <<Stem(f), clock>>

\* a backup file that copy2 has opened for writing and not filled: no bytes,
\* whatever file was being copied
EmptyBackup == <<"", Truncated>>

\* the backup step with the state update moved in front of the file write
PullBackup_UpdatesStateFirst ==
    /\ op.kind = "pull" /\ op.pc = "checked"
    /\ ~StateRaises
    /\ backups' = IF backup_on_pull /\ local[op.file] # Absent
                  THEN Put(backups, BackupName(op.file), <<op.file, local[op.file]>>)
                  ELSE backups
    /\ mem' = [loaded |-> TRUE,
               files |-> update_file_state(LoadedFiles, op.file,
                                           compute_hash(op.content), op.ver)]
    /\ op' = [op EXCEPT !.pc = "backedup"]
    /\ hist' = [hist EXCEPT !.copies = IF backup_on_pull /\ local[op.file] # Absent
                                        THEN hist.copies + 1 ELSE hist.copies]
    /\ UNCHANGED <<elems, remoteContent, remoteVer, local, disk, clock, run, pol, det, sidecar, proj, walk, codec, names, dirs>>

PullBackup ==
    /\ op.kind = "pull" /\ op.pc = "checked"
    /\ backups' = IF backup_on_pull /\ local[op.file] # Absent
                  THEN Put(backups, BackupName(op.file), <<op.file, local[op.file]>>)
                  ELSE backups
    /\ op' = [op EXCEPT !.pc = "backedup"]
    /\ hist' = [hist EXCEPT !.copies = IF backup_on_pull /\ local[op.file] # Absent
                                        THEN hist.copies + 1 ELSE hist.copies]
    /\ UNCHANGED <<elems, remoteContent, remoteVer, local, mem, disk, clock, run, pol, det, sidecar, proj, walk, codec, names, dirs>>

\* _pull_feature_studio: filepath.write_text(remote_content), which raises
\* when the directory of the file does not exist (pull_document creates none)
PullWrite ==
    /\ op.kind = "pull" /\ op.pc = "backedup"
    /\ IF DocOf(op.file) \in dirs
       THEN /\ local' = [local EXCEPT ![op.file] = op.content]
            /\ op' = [op EXCEPT !.pc = "written", !.xfer = TRUE]
            /\ hist' = [hist EXCEPT !.writes = hist.writes + 1,
                                    !.xferred = hist.xferred \cup {op.file},
                                    !.overwritten =
                                        IF local[op.file] # Absent /\ local[op.file] # op.content
                                        THEN hist.overwritten \cup {<<op.file, local[op.file]>>}
                                        ELSE hist.overwritten]
            /\ UNCHANGED run
       ELSE /\ Return(SyncResult(FALSE, "Failed", FALSE, FALSE))
            /\ UNCHANGED <<local, hist>>
    /\ UNCHANGED <<elems, remoteContent, remoteVer, mem, disk, backups, clock, pol, det, sidecar, proj, walk, codec, names, dirs>>

\* the state update of a pull that returns the success outcome at once,
\* before SyncState.save
PullUpdate_ReturnsBeforeSave ==
    /\ op.kind = "pull" /\ op.pc = "written"
    /\ IF StateRaises
       THEN /\ Return(SyncResult(FALSE, "Failed", FALSE, FALSE))
            /\ UNCHANGED mem
       ELSE /\ mem' = [loaded |-> TRUE,
                       files |-> update_file_state(LoadedFiles, op.file,
                                                   compute_hash(op.content), op.ver)]
            /\ Return(SyncResult(TRUE, "Pulled", FALSE, FALSE))
    /\ UNCHANGED <<elems, remoteContent, remoteVer, local, disk, backups, clock, hist, pol, det,
                   sidecar, proj, walk, codec, names, dirs>>

\* _pull_feature_studio: compute_hash + update_file_state
PullUpdate ==
    /\ op.kind = "pull" /\ op.pc = "written"
    /\ IF StateRaises
       THEN /\ Return(SyncResult(FALSE, "Failed", FALSE, FALSE))
            /\ UNCHANGED mem
       ELSE /\ mem' = [loaded |-> TRUE,
                       files |-> update_file_state(LoadedFiles, op.file,
                                                   compute_hash(op.content), op.ver)]
            /\ op' = [op EXCEPT !.pc = "updated"]
            /\ UNCHANGED run
    /\ UNCHANGED <<elems, remoteContent, remoteVer, local, disk, backups, clock, hist, pol, det, sidecar, proj, walk, codec, names, dirs>>

\* SyncState.save: open(state_file, "w") truncates the file
SaveOpen ==
    /\ op.pc = "updated"
    /\ disk' = [ok |-> FALSE, files |-> EmptyMap]
    /\ op' = [op EXCEPT !.pc = "saving"]
    /\ UNCHANGED <<elems, remoteContent, remoteVer, local, mem, backups, clock, run, hist, pol, det, sidecar, proj, walk, codec, names, dirs>>

\* SyncState.save: json.dump of the whole mapping; then the handler returns
SaveDump ==
    /\ op.pc = "saving"
    /\ disk' = [ok |-> TRUE, files |-> mem.files]
    /\ Return(SyncResult(TRUE, IF op.kind = "pull" THEN "Pulled" ELSE "Pushed", FALSE, FALSE))
    /\ UNCHANGED <<elems, remoteContent, remoteVer, local, mem, backups, clock, hist, pol, det, sidecar, proj, walk, codec, names, dirs>>


\* _push_feature_studio: get_document_microversion (or its exception)
PushLookup ==
    /\ op.kind = "push" /\ op.pc = "begin"
    /\ \/ /\ op' = [op EXCEPT !.pc = "looked", !.ver = remoteVer[DocOf(op.file)]]
          /\ UNCHANGED run
       \/ Return(SyncResult(FALSE, "Failed", FALSE, FALSE))
    /\ UNCHANGED <<elems, remoteContent, remoteVer, local, mem, disk, backups, clock, hist, pol, det, sidecar, proj, walk, codec, names, dirs>>

\* _push_feature_studio: the conflict check, skipped with force
PushCheck ==
    /\ op.kind = "push" /\ op.pc = "looked"
    /\ IF run.force
       THEN /\ op' = [op EXCEPT !.pc = "checked"]
            /\ UNCHANGED <<run, mem>>
       ELSE IF StateRaises
       THEN /\ Return(SyncResult(FALSE, "Failed", FALSE, FALSE))
            /\ UNCHANGED mem
       ELSE LET conflict == detect_push_conflict(op.file, op.ver)
            IN  /\ mem' = [loaded |-> TRUE, files |-> LoadedFiles]
                /\ IF conflict.conflict_type = BOTH_CHANGED
                   THEN /\ op'  = [op EXCEPT !.pc = "done", !.conflict = conflict.conflict_type,
                                             !.message = conflict.message]
                        /\ run' = [run EXCEPT !.outcomes =
                                      Put(run.outcomes, op.file,
                                          SyncResult(FALSE, conflict.message, TRUE, FALSE))]
                   ELSE /\ op' = [op EXCEPT !.pc = "checked", !.conflict = conflict.conflict_type,
                                            !.message = conflict.message]
                        /\ UNCHANGED run
    /\ UNCHANGED <<elems, remoteContent, remoteVer, local, disk, backups, clock, hist, pol, det, sidecar, proj, walk, codec, names, dirs>>

\* the submit step without the dry-run return
PushSubmit_IgnoresDryRun ==
    /\ op.kind = "push" /\ op.pc = "checked"
    /\ IF local[op.file] = Absent
       THEN /\ Return(SyncResult(FALSE, "Failed", FALSE, FALSE))
            /\ UNCHANGED <<remoteContent, remoteVer, hist>>
       ELSE \/ /\ remoteVer[DocOf(op.file)] < MaxVersion
               /\ remoteContent' = [remoteContent EXCEPT ![op.file] = local[op.file]]
               /\ remoteVer' = [remoteVer EXCEPT ![DocOf(op.file)] = @ + 1]
               /\ op' = [op EXCEPT !.pc = "submitted", !.content = local[op.file],
                                   !.ver = remoteVer[DocOf(op.file)] + 1, !.xfer = TRUE]
               /\ hist' = [hist EXCEPT !.xferred = hist.xferred \cup {op.file}]
               /\ UNCHANGED run
            \/ /\ Return(SyncResult(FALSE, "Failed", FALSE, FALSE))
               /\ UNCHANGED <<remoteContent, remoteVer, hist>>
    /\ UNCHANGED <<elems, local, mem, disk, backups, clock, pol, det, sidecar, proj, walk, codec, names, dirs>>

\* _push_feature_studio: read_text, the dry-run return, and
\* update_featurestudio_contents, which stores the content and moves the
\* workspace to a fresh microversion (or raises)
PushSubmit ==
    /\ op.kind = "push" /\ op.pc = "checked"
    /\ IF local[op.file] = Absent
       THEN /\ Return(SyncResult(FALSE, "Failed", FALSE, FALSE))
            /\ UNCHANGED <<elems, remoteContent, remoteVer, hist>>
       ELSE IF run.dry
       THEN /\ Return(SyncResult(TRUE, "[DRY RUN] Would push", FALSE, TRUE))
            /\ UNCHANGED <<elems, remoteContent, remoteVer, hist>>
       ELSE \/ /\ remoteVer[DocOf(op.file)] < MaxVersion
               /\ remoteContent' = [remoteContent EXCEPT ![op.file] = local[op.file]]
               /\ remoteVer' = [remoteVer EXCEPT ![DocOf(op.file)] = @ + 1]
               /\ op' = [op EXCEPT !.pc = "submitted", !.content = local[op.file],
                                   !.ver = remoteVer[DocOf(op.file)] + 1, !.xfer = TRUE]
               /\ hist' = [hist EXCEPT !.xferred = hist.xferred \cup {op.file}]
               /\ UNCHANGED run
            \/ /\ Return(SyncResult(FALSE, "Failed", FALSE, FALSE))
               /\ UNCHANGED <<elems, remoteContent, remoteVer, hist>>
    /\ UNCHANGED <<elems, local, mem, disk, backups, clock, pol, det, sidecar, proj, walk, codec, names, dirs>>

\* the state update after a push that records the microversion read before
\* the submission instead of the one the submission returned
PushUpdate_RecordsLookedUpVersion ==
    /\ op.kind = "push" /\ op.pc = "submitted"
    /\ IF StateRaises
       THEN /\ Return(SyncResult(FALSE, "Failed", FALSE, FALSE))
            /\ UNCHANGED mem
       ELSE /\ mem' = [loaded |-> TRUE,
                       files |-> update_file_state(LoadedFiles, op.file,
                                                   compute_hash(op.content), op.ver - 1)]
            /\ op' = [op EXCEPT !.pc = "updated"]
            /\ UNCHANGED run
    /\ UNCHANGED <<elems, remoteContent, remoteVer, local, disk, backups, clock, hist, pol, det,
                   sidecar, proj, walk, codec, names, dirs>>

\* _push_feature_studio: compute_hash + update_file_state
PushUpdate ==
    /\ op.kind = "push" /\ op.pc = "submitted"
    /\ IF StateRaises
       THEN /\ Return(SyncResult(FALSE, "Failed", FALSE, FALSE))
            /\ UNCHANGED mem
       ELSE /\ mem' = [loaded |-> TRUE,
                       files |-> update_file_state(LoadedFiles, op.file,
                                                   compute_hash(op.content), op.ver)]
            /\ op' = [op EXCEPT !.pc = "updated"]
            /\ UNCHANGED run
    /\ UNCHANGED <<elems, remoteContent, remoteVer, local, disk, backups, clock, hist, pol, det, sidecar, proj, walk, codec, names, dirs>>

\* pull_all / push_all return
AllReturn ==
    /\ run.kind # "none"
    /\ run.docs = <<>>
    /\ run.todo = <<>>
    /\ op.pc \in {"idle", "done"}
    /\ run.meta = {}
    /\ run' = NoRun
    /\ op'  = IdleOp
    /\ hist' = [hist EXCEPT !.calm = /\ run.kind = "pull" /\ ~run.dry
                                     /\ ~hist.disturbed
                                     /\ \A f \in elems : /\ f \in DOMAIN run.outcomes
                                                         /\ run.outcomes[f].success,
                            !.startedCalm = FALSE,
                            !.recovering = ""]
    /\ UNCHANGED <<elems, remoteContent, remoteVer, local, mem, disk, backups, clock, pol, det,
                   sidecar, walk, codec, names, dirs>>

\* cmd_pull / cmd_push after pull_all / push_all: the counts and the exit code
EndRun ==
    /\ AllReturn
    /\ UNCHANGED proj

\* ------------------------------------------------- main.py / working.py
\* the counts the commands take over the results of pull_all / push_all
conflict_count(results) == Cardinality({f \in DOMAIN results : results[f].conflict})

failed_count(results) ==
    Cardinality({f \in DOMAIN results : ~results[f].success /\ ~results[f].conflict})

\* a working project: _project_to_sync_config yields a single folder entry or
\* a single document entry
IsProject == Cardinality({ConfiguredAs(DocOf(f)) : f \in elems}) = 1

\* exit code of cmd_pull and of cmd_push
cmd_pull(results) == IF conflict_count(results) = 0 /\ failed_count(results) = 0 THEN 0 ELSE 1

cmd_push(results) == IF conflict_count(results) = 0 /\ failed_count(results) = 0 THEN 0 ELSE 1

\* exit code of cmd_get: 1 when get_working_directory raises (the check before
\* the pull), else by the "success" of its report, len(failed) == 0, where
\* failed holds the results with neither success nor conflict
cmd_get(pre, results) ==
    IF pre = "raised" THEN 1
    ELSE IF failed_count(results) = 0 THEN 0 ELSE 1

\* exit code of cmd_push_new (pushproject), by push_working_directory's report
cmd_push_new(pre, results) ==
    IF pre = "raised" THEN 1
    ELSE IF failed_count(results) = 0 THEN 0 ELSE 1

\* ------------------------------------------------------------ environment
\* the process dies: the command and the store in memory are gone
Dies ==
    /\ run.kind # "none"
    /\ hist.nCrashes < MaxCrashes
    /\ hist.nEdits + hist.nCrashes < MaxEvents
    /\ run' = NoRun
    /\ op'  = IdleOp
    /\ mem' = Unloaded
    /\ hist' = [hist EXCEPT !.calm = FALSE,
                            !.nCrashes = hist.nCrashes + 1,
                            !.startedCalm = FALSE,
                            !.recovering = "",
                            !.crashedPull = IF op.kind = "pull" /\ ~run.force /\ op.pc = "written"
                                            THEN op.file ELSE ""]

\* the process dies in the middle of a command, between two calls that
\* touch the remote, the files or the state file
Crash ==
    /\ Dies
    /\ UNCHANGED <<elems, remoteContent, remoteVer, local, disk, backups, clock, pol, det, sidecar, proj, walk, codec, names, dirs>>

\* the process dies inside filepath.write_text: the file has been opened
\* for writing, which creates or empties it, and nothing is written
CrashInWrite ==
    /\ op.kind = "pull" /\ op.pc = "backedup"
    /\ DocOf(op.file) \in dirs
    /\ Dies
    /\ local' = [local EXCEPT ![op.file] = Truncated]
    /\ UNCHANGED <<elems, remoteContent, remoteVer, disk, backups, clock, pol, det, sidecar,
                   proj, walk, codec, names, dirs>>

\* the process dies inside shutil.copy2 of _backup_file: the backup file has
\* been opened for writing, which creates it or empties the backup of that
\* name, and no byte is copied
CrashInBackup ==
    /\ op.kind = "pull" /\ op.pc = "checked"
    /\ backup_on_pull /\ local[op.file] # Absent
    /\ Dies
    /\ backups' = Put(backups, BackupName(op.file), EmptyBackup)
    /\ UNCHANGED <<elems, remoteContent, remoteVer, local, disk, clock, pol, det, sidecar,
                   proj, walk, codec, names, dirs>>

\* the process dies inside _save_document_metadata, between open(path, "w")
\* and json.dump: .document.json is left with no bytes
CrashInMetadataSave(d) ==
    /\ MetadataDue(d)
    /\ Dies
    /\ sidecar' = [sidecar EXCEPT ![d] = TruncatedSidecar]
    /\ UNCHANGED <<elems, remoteContent, remoteVer, local, disk, backups, clock, pol, det,
                   proj, walk, codec, names, dirs>>

\* push_all raises: _load_document_metadata runs open and json.load on
\* .document.json outside every try block, and the command ends with the
\* exception and no result: json.load raises on a truncated file; with
\* `fault`, reading a complete file fails
LoadMetadataRaises(fault) ==
    /\ BetweenDocuments /\ run.kind = "push"
    /\ Head(run.docs) \in Docs /\ ConfiguredAs(Head(run.docs)) = "folder"
    /\ IF fault
       THEN sidecar[Head(run.docs)].ok /\ hist.nFaults < MaxFaults
       ELSE ~sidecar[Head(run.docs)].ok
    /\ run' = NoRun
    /\ op'  = IdleOp
    /\ hist' = [hist EXCEPT !.calm = FALSE, !.startedCalm = FALSE, !.recovering = "",
                            !.nFaults = IF fault THEN hist.nFaults + 1 ELSE hist.nFaults]
    /\ UNCHANGED <<elems, remoteContent, remoteVer, local, mem, disk, backups, clock, pol, det,
                   sidecar, proj, walk, codec, names, dirs>>

\* the user creates the local directory of the configured document
MakeDir(d) ==
    /\ d \in {DocOf(f) : f \in elems} \ dirs
    /\ ConfiguredAs(d) = "document"
    /\ dirs' = dirs \cup {d}
    /\ UNCHANGED <<elems, remoteContent, remoteVer, local, mem, disk, backups, clock, run, op,
                   hist, pol, det, sidecar, proj, walk, codec, names>>

\* the engine is about to read or write the remote
AtRemoteAccess ==
    \/ op.pc = "begin"
    \/ op.kind = "push" /\ op.pc = "checked"

\* another party submits new content for an element of a shared workspace.
\* The engine observes the remote only in PullFetch, PushLookup and
\* PushSubmit, so the edit is taken where the next engine step observes it.
OtherPartyEdit(f, c) ==
    /\ AtRemoteAccess
    /\ hist.nEdits < MaxEdits
    /\ hist.nEdits + hist.nCrashes < MaxEvents
    /\ remoteVer[DocOf(f)] < MaxVersion
    /\ remoteContent' = [remoteContent EXCEPT ![f] = c]
    /\ remoteVer' = [remoteVer EXCEPT ![DocOf(f)] = @ + 1]
    /\ hist' = Disturb(hist)
    /\ UNCHANGED <<elems, local, mem, disk, backups, clock, run, op, pol, det, sidecar, proj, walk, codec, names, dirs>>

\* the user edits a local file, between two commands or while one runs
LocalEdit(f, c) ==
    /\ hist.nEdits < MaxEdits
    /\ hist.nEdits + hist.nCrashes < MaxEvents
    /\ local[f] # Absent /\ local[f] # c
    /\ local' = [local EXCEPT ![f] = c]
    /\ hist' = Disturb(hist)
    /\ UNCHANGED <<elems, remoteContent, remoteVer, mem, disk, backups, clock, run, op, pol, det, sidecar, proj, walk, codec, names, dirs>>

\* the user deletes a local file, between two commands or while one runs
LocalDelete(f) ==
    /\ hist.nEdits < MaxEdits
    /\ hist.nEdits + hist.nCrashes < MaxEvents
    /\ local[f] # Absent
    /\ local' = [local EXCEPT ![f] = Absent]
    /\ hist' = Disturb(hist)
    /\ UNCHANGED <<elems, remoteContent, remoteVer, mem, disk, backups, clock, run, op, pol, det, sidecar, proj, walk, codec, names, dirs>>

\* the wall clock reaches the next second.  Only _backup_file reads the
\* clock, so the tick is taken right before a backup is made.
Tick ==
    /\ op.kind = "pull" /\ op.pc = "checked" /\ local[op.file] # Absent
    /\ clock < MaxClock
    /\ clock' = clock + 1
    /\ UNCHANGED <<elems, remoteContent, remoteVer, local, mem, disk, backups, run, op, hist, pol, det, sidecar, proj, walk, codec, names, dirs>>

\* ------------------------------------------- references.py / working.py
\* resolved paths are sequences of directory names below base_dir
PathNames == {"refs", "std", "work"}

RECURSIVE SeqsUpTo(_)
SeqsUpTo(n) ==
    IF n = 0 THEN {<<>>}
    ELSE LET shorter == SeqsUpTo(n - 1)
         IN  shorter \cup {Append(q, a) : q \in {t \in shorter : Len(t) = n - 1}, a \in PathNames}

Paths == SeqsUpTo(MaxDepth)

\* PurePath.relative_to succeeds iff root is path or one of its parents;
\* otherwise it raises ValueError
relative_to(path, root) ==
    /\ Len(root) <= Len(path)
    /\ SubSeq(path, 1, Len(root)) = root

\* the try block of validate_push_allowed for one reference: the exception
\* that leaves it.  relative_to raises ValueError for a path outside the
\* reference; for a path inside it the block raises its own ValueError.
TryBlock(path, root) ==
    IF relative_to(path, root)
    THEN [exc |-> "ValueError", by |-> "raise"]
    ELSE [exc |-> "ValueError", by |-> "relative_to"]

\* `except ValueError: pass` lets an exception through iff
Propagates(e) == e.exc # "ValueError"

\* ReferenceManager.validate_push_allowed: TRUE iff the call raises
validate_push_allowed(path, refs) ==
    \E root \in refs : Propagates(TryBlock(path, root))

PolIdle == [pc |-> "idle", path |-> <<>>, refs |-> {}]

\* WorkingDirectoryManager.push_working_directory up to the construction of
\* SyncOperations: the policy check, re-raised as ValueError, comes first
PushWorkingDirectory ==
    /\ pol.pc = "called"
    /\ pol' = [pol EXCEPT !.pc = IF validate_push_allowed(pol.path, pol.refs)
                                 THEN "raised" ELSE "engine"]
    /\ UNCHANGED <<elems, remoteContent, remoteVer, local, mem, disk, backups, clock, run, op, hist, det, sidecar, proj, walk, codec, names, dirs>>

\* ----------------------------------------- the detector called directly
\* the last direct call of the detector and, for a push check, the push
\* check made before it; none yet
DetIdle == [last |-> None, earlier |-> None]

\* what a call saw and returned; force is the flag of the command on whose
\* behalf the detector is asked, which the detector is not given
DetectorCall(kind, f, v, force, result) ==
    [kind |-> kind, file |-> f, remote_microversion |-> v, force |-> force,
     previous_state |-> get_file_state(LoadedFiles, f),
     file_exists |-> local[f] # Absent,
     current_hash |-> hash_file(f),
     result |-> result]

\* SyncState.detect_pull_conflict(filepath, local_path, remote_microversion),
\* called on a state store outside any command, as the unit tests call it
DetectPullConflict(f, v, force) ==
    /\ hist.nRuns = 0
    /\ ~StateRaises
    /\ LET previous_state == get_file_state(LoadedFiles, f)
           current_hash   == hash_file(f)
       IN  det' = [last    |-> DetectorCall("pull", f, v, force,
                                   detect_pull_conflict(previous_state, current_hash, v)),
                   earlier |-> None]
    /\ mem' = [loaded |-> TRUE, files |-> LoadedFiles]
    /\ UNCHANGED <<elems, remoteContent, remoteVer, local, disk, backups, clock, run, op, hist, pol,
                   sidecar, proj, walk, codec, names, dirs>>

\* SyncState.remove_file_state(filepath), called on a state store outside any
\* command (no command calls it): the entry leaves the store in memory, and
\* nothing is saved
RemoveFileState(f) ==
    /\ hist.nRuns = 0
    /\ ~StateRaises
    /\ mem' = [loaded |-> TRUE, files |-> remove_file_state(LoadedFiles, f)]
    /\ UNCHANGED <<elems, remoteContent, remoteVer, local, disk, backups, clock, run, op, hist, pol,
                   det, sidecar, proj, walk, codec, names, dirs>>

\* SyncState.detect_push_conflict(filepath, remote_microversion)
DetectPushConflict(f, v) ==
    /\ hist.nRuns = 0
    /\ ~StateRaises
    /\ det' = [last    |-> DetectorCall("push", f, v, FALSE, detect_push_conflict(f, v)),
               earlier |-> IF det.last # None /\ det.last.kind = "push"
                           THEN det.last ELSE None]
    /\ mem' = [loaded |-> TRUE, files |-> LoadedFiles]
    /\ UNCHANGED <<elems, remoteContent, remoteVer, local, disk, backups, clock, run, op, hist, pol,
                   sidecar, proj, walk, codec, names, dirs>>

\* last_pull / last_push of a project that was never pulled / pushed (None);
\* a stamp taken during the n-th command is n
Never == 0

\* the project: its stamps, and whether the settings hold it ("configured"),
\* add_project is at its initial pull ("adding"), or it was removed
\* the project as the settings file has it while add_project, which has put
\* a new ProjectConfig of that name into the settings object, runs its
\* initial pull; no such record outside add_project
NotAdding == [state |-> "none", last_pull |-> Never, last_push |-> Never,
              workspace_id |-> FALSE]

\* a ProjectConfig that has not been pulled or pushed; workspace_id tells
\* whether the project's URL named a workspace
Proj0 == [last_pull |-> Never, last_push |-> Never, state |-> "configured",
          workspace_id |-> FALSE, saved |-> NotAdding]

\* no structure being encoded
CodecIdle == [pc |-> "idle"]

\* no named elements under consideration
NamesIdle == [pc |-> "idle"]

\* no folder listing in progress
WalkIdle == [pc |-> "idle", tree |-> <<>>, recursive |-> FALSE, stack |-> <<>>,
             documents |-> <<>>]

\* --------------------------------------------------------- specification
Hist0 == [calm |-> FALSE, startedCalm |-> FALSE, disturbed |-> FALSE,
          recovering |-> "", crashedPull |-> "", writes |-> 0, copies |-> 0, xferred |-> {},
          disk0 |-> [ok |-> TRUE, files |-> EmptyMap], overwritten |-> {}, nRuns |-> 0,
          nEdits |-> 0, nCrashes |-> 0, nFaults |-> 0]

Init ==
    /\ elems \in Layouts
    /\ remoteContent = [f \in elems |-> 1]
    /\ remoteVer = [d \in Docs |-> 1]
    /\ local = [f \in elems |-> Absent]
    /\ mem = Unloaded
    /\ disk = [ok |-> TRUE, files |-> EmptyMap]
    /\ backups = EmptyMap
    /\ clock = 1
    /\ run = NoRun
    /\ op = IdleOp
    /\ hist = Hist0
    /\ pol = PolIdle
    /\ det = DetIdle
    /\ sidecar = [d \in Docs |-> NoSidecar]
    /\ proj = Proj0
    /\ walk = WalkIdle
    /\ codec = CodecIdle
    /\ names = NamesIdle
    /\ dirs = {"."}

Next ==
    \/ \E kind \in {"pull", "push"}, force \in BOOLEAN, dry \in BOOLEAN : StartRun(kind, force, dry)
    \/ pull_folder
    \/ pull_document_to_folder
    \/ pull_document
    \/ push_folder
    \/ push_document_folder
    \/ push_document
    \/ LoadMetadataRaises(FALSE)
    \/ PullDryRun
    \/ BeginFile
    \/ \E d \in Docs : SaveDocumentMetadata(d)
    \/ PushUnmapped
    \/ PullFetch
    \/ PullCheck
    \/ PullBackup
    \/ PullWrite
    \/ PullUpdate
    \/ PushLookup
    \/ PushCheck
    \/ PushSubmit
    \/ PushUpdate
    \/ SaveOpen
    \/ SaveDump
    \/ EndRun
    \/ Crash
    \/ CrashInBackup
    \/ CrashInWrite
    \/ \E d \in Docs : CrashInMetadataSave(d)
    \/ \E d \in Docs : MakeDir(d)
    \/ \E f \in elems, c \in Contents : OtherPartyEdit(f, c)
    \/ \E f \in elems, c \in Contents : LocalEdit(f, c)
    \/ \E f \in elems : LocalDelete(f)
    \/ Tick

Spec == Init /\ [][Next]_vars

TypeOK ==
    /\ elems \in Layouts
    /\ remoteContent \in [elems -> Contents \cup {Truncated}]
    /\ remoteVer \in [Docs -> 1..MaxVersion]
    /\ local \in [elems -> Contents \cup {Absent, Truncated}]
    /\ \A f \in elems : local[f] # Absent => DocOf(f) \in dirs
    /\ dirs \subseteq {".", "d1", "d2"}
    /\ clock \in 1..MaxClock
    /\ DOMAIN mem.files \subseteq elems
    /\ DOMAIN disk.files \subseteq elems


\* the policy layer on its own: every push path against every reference set
InitPolicy ==
    /\ elems = {"d1/x.fs", "d1/y.fs"}
    /\ remoteContent = [f \in elems |-> 1]
    /\ remoteVer = [d \in Docs |-> 1]
    /\ local = [f \in elems |-> Absent]
    /\ mem = Unloaded
    /\ disk = [ok |-> TRUE, files |-> EmptyMap]
    /\ backups = EmptyMap
    /\ clock = 1
    /\ run = NoRun
    /\ op = IdleOp
    /\ hist = Hist0
    /\ \E path \in Paths, refs \in {R \in SUBSET (Paths \ {<<>>}) : Cardinality(R) <= MaxRefs} :
          pol = [pc |-> "called", path |-> path, refs |-> refs]
    /\ det = DetIdle
    /\ sidecar = [d \in Docs |-> NoSidecar]
    /\ proj = Proj0
    /\ walk = WalkIdle
    /\ codec = CodecIdle
    /\ names = NamesIdle
    /\ dirs = {"."}

NextPolicy == PushWorkingDirectory

SpecPolicy == InitPolicy /\ [][NextPolicy]_vars

\* the detector on its own: one document with one element, every tracked
\* state, local file and remote version; the detector is called directly,
\* the user edits or deletes the file, and pushes take the engine through
\* its own push check
InitDetector ==
    /\ elems = {"d2/x.fs"}
    /\ remoteContent = [f \in elems |-> 1]
    /\ \E v \in 1..MaxVersion : remoteVer = [d \in Docs |-> IF d = "d2" THEN v ELSE 1]
    /\ local \in [elems -> Contents \cup {Absent}]
    /\ mem = Unloaded
    /\ \E files \in {EmptyMap} \cup
                      {update_file_state(EmptyMap, f, compute_hash(c), v) :
                           f \in elems, c \in Contents, v \in 1..MaxVersion} :
          disk = [ok |-> TRUE, files |-> files]
    /\ backups = EmptyMap
    /\ clock = 1
    /\ run = NoRun
    /\ op = IdleOp
    /\ hist = [Hist0 EXCEPT !.disk0 = disk]
    /\ pol = PolIdle
    /\ det = DetIdle
    /\ sidecar = [d \in Docs |-> NoSidecar]
    /\ proj = Proj0
    /\ walk = WalkIdle
    /\ codec = CodecIdle
    /\ names = NamesIdle
    /\ dirs = {".", "d2"}

NextDetector ==
    \/ \E f \in elems, v \in 1..MaxVersion, force \in BOOLEAN : DetectPullConflict(f, v, force)
    \/ \E f \in elems, v \in 1..MaxVersion : DetectPushConflict(f, v)
    \/ \E f \in elems : RemoveFileState(f)
    \/ \E f \in elems, c \in Contents : LocalEdit(f, c)
    \/ \E f \in elems : LocalDelete(f)
    \/ \E force \in BOOLEAN, dry \in BOOLEAN : StartRun("push", force, dry)
    \/ push_document
    \/ BeginFile
    \/ PushLookup
    \/ PushCheck
    \/ PushSubmit
    \/ PushUpdate
    \/ SaveOpen
    \/ SaveDump
    \/ EndRun

SpecDetector == InitDetector /\ [][NextDetector]_vars

\* the project commands (get, pushproject) on a working project: one
\* configured folder or one configured document
\* datetime.now() as update_pull_time / update_push_time read it
Now == hist.nRuns

\* files_updated / files_pushed of the report
files_updated(results) ==
    Cardinality({f \in DOMAIN results : results[f].success /\ ~results[f].skipped})

\* get_working_directory / push_working_directory up to the call of pull_all /
\* push_all: a fresh SyncOperations, then the check before the transfer,
\* made without force and dry run.  _check_pull_conflicts looks every local
\* file up in the store of that SyncOperations, so when there is a local file
\* (none of them tracked, or the check would raise) pull_all starts with the
\* state file loaded
StartProjectRun(kind, force, dry) ==
    /\ IsProject
    /\ \/ proj.state = "configured"
       \/ proj.state = "adding" /\ kind = "pull" /\ force /\ ~dry
    /\ force \/ dry \/ (IF kind = "pull" THEN check_pull_conflicts
                                         ELSE check_push_conflicts) = "clear"
    /\ run.kind = "none"
    /\ hist.nRuns < MaxRuns
    /\ mem' = IF kind = "pull" /\ ~force /\ ~dry /\ \E f \in elems : local[f] # Absent
              THEN [loaded |-> TRUE, files |-> disk.files]
              ELSE Unloaded
    /\ op'  = IdleOp
    /\ run' = [kind |-> kind, force |-> force, dry |-> dry,
               pre  |-> "clear",
               docs |-> ConfigItems,
               todo |-> <<>>,
               meta |-> {},
               outcomes |-> EmptyMap]
    /\ hist' = [hist EXCEPT !.nRuns = hist.nRuns + 1,
                            !.writes = 0,
                            !.copies = 0,
                            !.xferred = {},
                            !.disk0 = disk,
                            !.startedCalm = hist.calm /\ kind = "pull",
                            !.disturbed = FALSE,
                            !.recovering = IF kind = "pull" /\ ~force /\ ~dry
                                           THEN hist.crashedPull ELSE "",
                            !.crashedPull = "",
                            !.calm = FALSE]
    /\ UNCHANGED <<elems, remoteContent, remoteVer, local, disk, backups, clock, pol, det, sidecar, proj, walk, codec, names, dirs>>

\* the project is a document project: _project_to_sync_config gives one
\* DocumentConfig
IsDocumentProject ==
    IsProject /\ \A f \in elems : ConfiguredAs(DocOf(f)) = "document"

\* get_working_directory / push_working_directory whose
\* _project_to_sync_config raises: for a document project without
\* workspace_id it asks the remote for the default workspace, before the
\* conflict check and before SyncOperations is built; when the request fails
\* the command ends with the exception, and an add_project that was running
\* it ends without saving the settings, which stay as the file has them
ProjectConfigRaises ==
    /\ IsDocumentProject
    /\ ~proj.workspace_id
    /\ proj.state \in {"configured", "adding"}
    /\ run.kind = "none"
    /\ hist.nRuns < MaxRuns
    /\ hist' = [hist EXCEPT !.nRuns = hist.nRuns + 1, !.calm = FALSE]
    /\ proj' = IF proj.state = "adding"
               THEN [last_pull |-> proj.saved.last_pull, last_push |-> proj.saved.last_push,
                     state |-> proj.saved.state, workspace_id |-> proj.saved.workspace_id,
                     saved |-> NotAdding]
               ELSE proj
    /\ UNCHANGED <<elems, remoteContent, remoteVer, local, mem, disk, backups, clock, run, op,
                   pol, det, sidecar, walk, codec, names, dirs>>

\* get_working_directory whose _check_pull_conflicts raises: the command ends
\* with the exception, before SyncOperations.pull_all
ProjectCheckRaises ==
    /\ IsProject
    /\ proj.state = "configured"
    /\ run.kind = "none"
    /\ hist.nRuns < MaxRuns
    /\ check_pull_conflicts = "raised"
    /\ hist' = [hist EXCEPT !.nRuns = hist.nRuns + 1, !.calm = FALSE]
    /\ UNCHANGED <<elems, remoteContent, remoteVer, local, mem, disk, backups, clock, run, op,
                   pol, det, sidecar, proj, walk, codec, names, dirs>>

\* the end of a project command that stamps the project after every run that
\* was not a dry run
EndProjectRun_StampsEveryRun ==
    /\ AllReturn
    /\ proj' = IF run.dry THEN [proj EXCEPT !.state = "configured", !.saved = NotAdding]
               ELSE IF run.kind = "pull"
               THEN [proj EXCEPT !.last_pull = Now, !.state = "configured",
                                 !.saved = NotAdding]
               ELSE [proj EXCEPT !.last_push = Now, !.state = "configured",
                                 !.saved = NotAdding]

\* get_working_directory / push_working_directory after pull_all / push_all:
\* the counts, then update_pull_time / update_push_time and settings.save;
\* add_project saves the settings after its initial pull
EndProjectRun ==
    /\ AllReturn
    /\ proj' = IF ~run.dry /\ files_updated(run.outcomes) > 0
               THEN IF run.kind = "pull"
                    THEN [proj EXCEPT !.last_pull = Now, !.state = "configured",
                                      !.saved = NotAdding]
                    ELSE [proj EXCEPT !.last_push = Now, !.state = "configured",
                                      !.saved = NotAdding]
               ELSE [proj EXCEPT !.state = "configured", !.saved = NotAdding]

\* remove_project: the project leaves the settings and, with delete_files,
\* shutil.rmtree removes its working directory with the files and the
\* .document.json below it; the state file keeps its entries
RemoveProject(delete_files) ==
    /\ IsProject
    /\ run.kind = "none"
    /\ proj.state = "configured"
    /\ proj' = [proj EXCEPT !.state = "removed"]
    /\ IF delete_files /\ dirs # {}
       THEN /\ local' = [f \in elems |-> Absent]
            /\ sidecar' = [d \in Docs |-> NoSidecar]
            /\ dirs' = {}
       ELSE UNCHANGED <<local, sidecar, dirs>>
    /\ UNCHANGED <<elems, remoteContent, remoteVer, mem, disk, backups, clock, run, op, hist,
                   pol, det, walk, codec, names>>

\* add_project up to its initial pull: a new ProjectConfig enters the
\* settings object, in the place of a project of that name if there is one,
\* with or without a workspace_id from the URL (a folder URL has none);
\* get_working_directory(name, force=True) follows
AddProject ==
    /\ IsProject
    /\ run.kind = "none"
    /\ hist.nRuns < MaxRuns
    /\ proj.state \in {"configured", "removed"}
    /\ \E w \in (IF IsDocumentProject THEN BOOLEAN ELSE {FALSE}) :
          proj' = [Proj0 EXCEPT !.state = "adding", !.workspace_id = w,
                                !.saved = [state |-> proj.state,
                                           last_pull |-> proj.last_pull,
                                           last_push |-> proj.last_push,
                                           workspace_id |-> proj.workspace_id]]
    /\ UNCHANGED <<elems, remoteContent, remoteVer, local, mem, disk, backups, clock, run, op,
                   hist, pol, det, sidecar, walk, codec, names, dirs>>

InitProject ==
    /\ elems \in {L \in Layouts : Cardinality({ConfiguredAs(DocOf(f)) : f \in L}) = 1}
    /\ remoteContent = [f \in elems |-> 1]
    /\ remoteVer = [d \in Docs |-> 1]
    /\ \/ /\ local = [f \in elems |-> Absent]
          /\ dirs = {}
       \/ \E g \in elems, c \in Contents :
             /\ local = [f \in elems |-> IF f = g THEN c ELSE Absent]
             /\ dirs = IF ConfiguredAs(DocOf(g)) = "folder"
                       THEN {".", DocOf(g)} ELSE {DocOf(g)}
    /\ mem = Unloaded
    /\ disk = [ok |-> TRUE, files |-> EmptyMap]
    /\ backups = EmptyMap
    /\ clock = 1
    /\ run = NoRun
    /\ op = IdleOp
    /\ hist = Hist0
    /\ pol = PolIdle
    /\ det = DetIdle
    /\ sidecar = [d \in Docs |-> NoSidecar]
    /\ \E w \in (IF IsDocumentProject THEN BOOLEAN ELSE {FALSE}) :
          proj = [Proj0 EXCEPT !.workspace_id = w]
    /\ walk = WalkIdle
    /\ codec = CodecIdle
    /\ names = NamesIdle

NextProject ==
    \/ \E kind \in {"pull", "push"}, force \in BOOLEAN, dry \in BOOLEAN :
          StartProjectRun(kind, force, dry)
    \/ ProjectConfigRaises
    \/ ProjectCheckRaises
    \/ pull_folder
    \/ pull_document_to_folder
    \/ pull_document
    \/ push_folder
    \/ push_document_folder
    \/ push_document
    \/ PullDryRun
    \/ BeginFile
    \/ \E d \in Docs : SaveDocumentMetadata(d)
    \/ PushUnmapped
    \/ PullFetch
    \/ PullCheck
    \/ PullBackup
    \/ PullWrite
    \/ PullUpdate
    \/ PushLookup
    \/ PushCheck
    \/ PushSubmit
    \/ PushUpdate
    \/ SaveOpen
    \/ SaveDump
    \/ EndProjectRun
    \/ \E delete_files \in BOOLEAN : RemoveProject(delete_files)
    \/ AddProject
    \/ \E d \in Docs : MakeDir(d)
    \/ \E f \in elems, c \in Contents : LocalEdit(f, c)

SpecProject == InitProject /\ [][NextProject]_vars

\* ------------------------------------------------------------ client.py
\* the folder listing of a folder pull, against remote folder hierarchies
Folders == {"root", "A", "B"}

\* order in which get_folder_contents yields the subfolders
FolderOrder == <<"root", "A", "B">>

\* max_depth, the default of get_folder_tree, the only depth bound of the
\* client
max_depth == 10

\* the folders reached from f in the listing relation t in at most n levels
RECURSIVE Below(_, _, _)
Below(t, f, n) ==
    IF n = 0 THEN {}
    ELSE t[f] \cup UNION {Below(t, g, n - 1) : g \in t[f]}

\* the remote hierarchies: for each folder the folders its listing holds.
\* Every hierarchy without a cycle, and every one, cyclic or not, whose
\* folders list at most one folder.
Hierarchies ==
    {t \in [Folders -> SUBSET Folders] :
        \/ \A f \in Folders : f \notin Below(t, f, Cardinality(Folders))
        \/ \A f \in Folders : Cardinality(t[f]) <= 1}

\* folder_data["items"] of get_folder_contents(f): the document the folder
\* holds, then its subfolders
Items(t, f) ==
    <<[resourceType |-> "document", id |-> <<"doc", f>>]>> \o
    [i \in 1..Len(SeqFilter(FolderOrder, t[f])) |->
        [resourceType |-> "folder", id |-> SeqFilter(FolderOrder, t[f])[i]]]

\* a call of _collect_folder_documents on folder f: the items still to visit
Frame(t, f) == [folder |-> f, items |-> Items(t, f)]

\* list_folder_documents(folder_id, recursive): the first call of
\* _collect_folder_documents
ListFolderDocuments ==
    /\ walk.pc = "configured"
    /\ walk' = [walk EXCEPT !.pc = "walking", !.stack = <<Frame(walk.tree, "root")>>]
    /\ UNCHANGED <<elems, remoteContent, remoteVer, local, mem, disk, backups, clock, run, op,
                   hist, pol, det, sidecar, proj, codec, names, dirs>>

\* _collect_folder_documents, one turn of its loop over the items: a document
\* is appended, a folder is entered by a recursive call when `recursive` is
\* set; the call that exceeds the interpreter's recursion limit raises
\* RecursionError, which unwinds every frame
CollectItem ==
    /\ walk.pc = "walking"
    /\ walk.stack # <<>>
    /\ LET top  == walk.stack[Len(walk.stack)]
           rest == SubSeq(walk.stack, 1, Len(walk.stack) - 1)
       IN  /\ top.items # <<>>
           /\ LET item == Head(top.items)
                  next == rest \o <<[top EXCEPT !.items = Tail(top.items)]>>
              IN  IF item.resourceType = "document"
                  THEN walk' = [walk EXCEPT !.stack = next,
                                            !.documents = Append(walk.documents, item.id)]
                  ELSE IF ~walk.recursive
                  THEN walk' = [walk EXCEPT !.stack = next]
                  ELSE IF Len(walk.stack) < MaxRecursion
                  THEN walk' = [walk EXCEPT !.stack = next \o <<Frame(walk.tree, item.id)>>]
                  ELSE walk' = [walk EXCEPT !.pc = "RecursionError", !.stack = <<>>]
    /\ UNCHANGED <<elems, remoteContent, remoteVer, local, mem, disk, backups, clock, run, op,
                   hist, pol, det, sidecar, proj, codec, names, dirs>>

\* _collect_folder_documents returns when its loop is through; the return of
\* the first call is the return of list_folder_documents
CollectReturn ==
    /\ walk.pc = "walking"
    /\ walk.stack # <<>>
    /\ walk.stack[Len(walk.stack)].items = <<>>
    /\ walk' = [walk EXCEPT !.stack = SubSeq(walk.stack, 1, Len(walk.stack) - 1),
                            !.pc = IF Len(walk.stack) = 1 THEN "returned" ELSE "walking"]
    /\ UNCHANGED <<elems, remoteContent, remoteVer, local, mem, disk, backups, clock, run, op,
                   hist, pol, det, sidecar, proj, codec, names, dirs>>

InitFolders ==
    /\ elems = {"d1/x.fs", "d1/y.fs"}
    /\ remoteContent = [f \in elems |-> 1]
    /\ remoteVer = [d \in Docs |-> 1]
    /\ local = [f \in elems |-> Absent]
    /\ mem = Unloaded
    /\ disk = [ok |-> TRUE, files |-> EmptyMap]
    /\ backups = EmptyMap
    /\ clock = 1
    /\ run = NoRun
    /\ op = IdleOp
    /\ hist = Hist0
    /\ pol = PolIdle
    /\ det = DetIdle
    /\ sidecar = [d \in Docs |-> NoSidecar]
    /\ proj = Proj0
    /\ \E t \in Hierarchies, recursive \in BOOLEAN :
          walk = [WalkIdle EXCEPT !.pc = "configured", !.tree = t, !.recursive = recursive]
    /\ codec = CodecIdle
    /\ names = NamesIdle
    /\ dirs = {"."}

NextFolders ==
    \/ ListFolderDocuments
    \/ CollectItem
    \/ CollectReturn

SpecFolders == InitFolders /\ [][NextFolders]_vars

\* ------------------------------------------- state.py / config.py: encoding
\* the state file and the sidecar on their way to disk and back; a dict is a
\* function on its keys
\* dict.get(key, default)
get(d, k, default) == IF k \in DOMAIN d THEN d[k] ELSE default

\* FileState.to_dict
FileState_to_dict(x) ==
    [local_hash          |-> x.local_hash,
     remote_microversion |-> x.remote_microversion,
     last_sync           |-> x.last_sync,
     element_id          |-> x.element_id,
     document_id         |-> x.document_id,
     workspace_id        |-> x.workspace_id]

\* FileState.from_dict that looks the version up under the key "microversion"
FileState_from_dict_WrongKey(data) ==
    [local_hash          |-> get(data, "local_hash", ""),
     remote_microversion |-> get(data, "microversion", ""),
     last_sync           |-> get(data, "last_sync", ""),
     element_id          |-> get(data, "element_id", ""),
     document_id         |-> get(data, "document_id", ""),
     workspace_id        |-> get(data, "workspace_id", "")]

\* FileState.from_dict
FileState_from_dict(data) ==
    [local_hash          |-> get(data, "local_hash", ""),
     remote_microversion |-> get(data, "remote_microversion", ""),
     last_sync           |-> get(data, "last_sync", ""),
     element_id          |-> get(data, "element_id", ""),
     document_id         |-> get(data, "document_id", ""),
     workspace_id        |-> get(data, "workspace_id", "")]

\* SyncStateData.to_dict
SyncStateData_to_dict(x) ==
    [version |-> x.version,
     files   |-> [k \in DOMAIN x.files |-> FileState_to_dict(x.files[k])]]

\* SyncStateData.from_dict: `data.get("files") or {}`, then one FileState
\* per item
SyncStateData_from_dict(data) ==
    LET given == get(data, "files", EmptyMap)
    IN  [version |-> get(data, "version", "1.0"),
         files   |-> [k \in DOMAIN given |-> FileState_from_dict(given[k])]]

\* DocumentMetadata.to_dict
DocumentMetadata_to_dict(x) ==
    [document_id     |-> x.document_id,
     workspace_id    |-> x.workspace_id,
     document_name   |-> x.document_name,
     folder_path     |-> x.folder_path,
     onshape_url     |-> x.onshape_url,
     last_sync       |-> x.last_sync,
     feature_studios |-> x.feature_studios]

\* DocumentMetadata.from_dict
DocumentMetadata_from_dict(data) ==
    [document_id     |-> data["document_id"],
     workspace_id    |-> data["workspace_id"],
     document_name   |-> data["document_name"],
     folder_path     |-> get(data, "folder_path", ""),
     onshape_url     |-> get(data, "onshape_url", ""),
     last_sync       |-> get(data, "last_sync", ""),
     feature_studios |-> get(data, "feature_studios", EmptyMap)]

\* json.dump of a dict of strings: the text of a JSON object is its members,
\* name and value
JsonObject(d) == {<<k, d[k]>> : k \in DOMAIN d}

\* json.load of the text of a JSON object
ParseObject(members) ==
    [k \in {m[1] : m \in members} |-> (CHOOSE m \in members : m[1] = k)[2]]

\* json.dump / json.load of the state file: "files" is an object of objects
DumpState(d) ==
    [version |-> d.version,
     files   |-> [k \in DOMAIN d.files |-> JsonObject(d.files[k])]]

LoadState(text) ==
    [version |-> text.version,
     files   |-> [k \in DOMAIN text.files |-> ParseObject(text.files[k])]]

\* json.dump / json.load of the sidecar: "feature_studios" is an object
DumpMetadata(d) == [d EXCEPT !.feature_studios = JsonObject(d.feature_studios)]

LoadMetadata(text) == [text EXCEPT !.feature_studios = ParseObject(text.feature_studios)]

\* the structures put through the encoding
Strings(s) == {"", s}

FileStates ==
    [local_hash : Strings("h"), remote_microversion : Strings("v"),
     last_sync : Strings("t"), element_id : {"e"}, document_id : {"d"},
     workspace_id : {"w"}]

Maps(K, V) == UNION {[D -> V] : D \in SUBSET K}

SyncStateDatas == [version : {"1.0", ""}, files : Maps({"p.fs", "q.fs"}, FileStates)]

DocumentMetadatas ==
    [document_id : {"d"}, workspace_id : {"w"}, document_name : Strings("n"),
     folder_path : Strings("f"), onshape_url : Strings("u"), last_sync : Strings("t"),
     feature_studios : Maps({"x", "y"}, {"e1", "e2"})]

\* x.to_dict()
CodecToDict ==
    /\ codec.pc = "new"
    /\ codec' = [codec EXCEPT !.pc = "dict",
                              !.d = IF codec.kind = "state"
                                    THEN SyncStateData_to_dict(codec.x)
                                    ELSE DocumentMetadata_to_dict(codec.x)]
    /\ UNCHANGED <<elems, remoteContent, remoteVer, local, mem, disk, backups, clock, run, op,
                   hist, pol, det, sidecar, proj, walk, names, dirs>>

\* SyncState.save / _save_document_metadata: json.dump of the dict to the file
CodecSave ==
    /\ codec.pc = "dict"
    /\ codec' = [codec EXCEPT !.pc = "saved",
                              !.text = IF codec.kind = "state" THEN DumpState(codec.d)
                                                               ELSE DumpMetadata(codec.d)]
    /\ UNCHANGED <<elems, remoteContent, remoteVer, local, mem, disk, backups, clock, run, op,
                   hist, pol, det, sidecar, proj, walk, names, dirs>>

\* a fresh SyncState._load_state / _load_document_metadata: json.load of the
\* file
CodecLoad ==
    /\ codec.pc = "saved"
    /\ codec' = [codec EXCEPT !.pc = "loaded",
                              !.d = IF codec.kind = "state" THEN LoadState(codec.text)
                                                            ELSE LoadMetadata(codec.text)]
    /\ UNCHANGED <<elems, remoteContent, remoteVer, local, mem, disk, backups, clock, run, op,
                   hist, pol, det, sidecar, proj, walk, names, dirs>>

\* from_dict of the dict, straight from to_dict or as loaded from the file
CodecFromDict ==
    /\ codec.pc \in {"dict", "loaded"}
    /\ codec' = [codec EXCEPT !.pc = "decoded",
                              !.via = codec.pc,
                              !.y = IF codec.kind = "state"
                                    THEN SyncStateData_from_dict(codec.d)
                                    ELSE DocumentMetadata_from_dict(codec.d)]
    /\ UNCHANGED <<elems, remoteContent, remoteVer, local, mem, disk, backups, clock, run, op,
                   hist, pol, det, sidecar, proj, walk, names, dirs>>

InitCodec ==
    /\ elems = {"d1/x.fs", "d1/y.fs"}
    /\ remoteContent = [f \in elems |-> 1]
    /\ remoteVer = [d \in Docs |-> 1]
    /\ local = [f \in elems |-> Absent]
    /\ mem = Unloaded
    /\ disk = [ok |-> TRUE, files |-> EmptyMap]
    /\ backups = EmptyMap
    /\ clock = 1
    /\ run = NoRun
    /\ op = IdleOp
    /\ hist = Hist0
    /\ pol = PolIdle
    /\ det = DetIdle
    /\ sidecar = [d \in Docs |-> NoSidecar]
    /\ proj = Proj0
    /\ walk = WalkIdle
    /\ names = NamesIdle
    /\ dirs = {"."}
    /\ \/ \E x \in SyncStateDatas :
             codec = [pc |-> "new", kind |-> "state", x |-> x, d |-> EmptyMap,
                      text |-> EmptyMap, via |-> "", y |-> EmptyMap]
       \/ \E x \in DocumentMetadatas :
             codec = [pc |-> "new", kind |-> "metadata", x |-> x, d |-> EmptyMap,
                      text |-> EmptyMap, via |-> "", y |-> EmptyMap]

NextCodec ==
    \/ CodecToDict
    \/ CodecSave
    \/ CodecLoad
    \/ CodecFromDict

SpecCodec == InitCodec /\ [][NextCodec]_vars

\* --------------------------------------- config.py / operations.py: names
\* one folder document with two elements, whatever their names are: the
\* first pull of the document and the push that follows it.  A name is a
\* sequence of characters.
ElementNames == UNION {[1..n -> {"a", "/", "_", " "}] : n \in 1..MaxNameLen}

ElementIds == {"e1", "e2"}

\* "unnamed"
Unnamed == <<"u", "n", "n", "a", "m", "e", "d">>


\* re.sub(r'[<>:"/\\|?*]', '_', name)
ReplaceInvalid(name) ==
    [i \in 1..Len(name) |-> IF name[i] \in {"<", ">", ":", "\"", "/", "\\", "|", "?", "*"}
                            THEN "_" ELSE name[i]]

\* re.sub(r'[_\s]+', '_', s): every run of underscores and spaces becomes
\* one underscore
RECURSIVE Collapse(_)
Collapse(s) ==
    IF s = <<>> THEN <<>>
    ELSE IF Head(s) \in {"_", " "}
         THEN IF Len(s) > 1 /\ s[2] \in {"_", " "}
              THEN Collapse(Tail(s))
              ELSE <<"_">> \o Collapse(Tail(s))
         ELSE <<Head(s)>> \o Collapse(Tail(s))

\* s.strip('_ ')
RECURSIVE Strip(_)
Strip(s) ==
    IF s = <<>> THEN <<>>
    ELSE IF Head(s) \in {"_", " "} THEN Strip(Tail(s))
    ELSE IF s[Len(s)] \in {"_", " "} THEN Strip(SubSeq(s, 1, Len(s) - 1))
    ELSE s

\* sanitize_filename
sanitize_filename(name) ==
    LET sanitized == Strip(Collapse(ReplaceInvalid(name)))
    IN  IF sanitized = <<>> THEN Unnamed ELSE sanitized

\* _pull_document_to_folder, one turn of its loop on a first pull: the file
\* is written as sanitize_filename(element_name) + file_extension and tracked
\* under that path, and the element is entered into feature_studios under
\* its name as listed
NamesPull ==
    /\ names.pc = "pulling"
    /\ names.todo # <<>>
    /\ LET e    == Head(names.todo)
           stem == sanitize_filename(names.name[e])
       IN  names' = [names EXCEPT !.todo = Tail(names.todo),
                                  !.files = Put(names.files, stem, e),
                                  !.tracked = Put(names.tracked, stem, e),
                                  !.feature_studios = Put(names.feature_studios,
                                                          names.name[e], e)]
    /\ UNCHANGED <<elems, remoteContent, remoteVer, local, mem, disk, backups, clock, run, op,
                   hist, pol, det, sidecar, proj, walk, codec, dirs>>

\* _save_document_metadata after the loop
NamesSaveMetadata ==
    /\ names.pc = "pulling"
    /\ names.todo = <<>>
    /\ names' = [names EXCEPT !.pc = "pulled", !.sidecar = names.feature_studios]
    /\ UNCHANGED <<elems, remoteContent, remoteVer, local, mem, disk, backups, clock, run, op,
                   hist, pol, det, sidecar, proj, walk, codec, dirs>>

\* _push_document_folder up to its loop: the sidecar is loaded and the
\* directory globbed, in whatever order the file system yields the files
NamesPushDocumentFolder ==
    /\ names.pc = "pulled"
    /\ \E o \in Orders(DOMAIN names.files) :
          names' = [names EXCEPT !.pc = "pushing", !.pushTodo = o]
    /\ UNCHANGED <<elems, remoteContent, remoteVer, local, mem, disk, backups, clock, run, op,
                   hist, pol, det, sidecar, proj, walk, codec, dirs>>

\* _push_document_folder, one turn of its loop:
\* metadata.feature_studios.get(fs_file.stem); a file with no id gets the
\* "pull first" failure; a file with an id goes to _push_feature_studio,
\* which submits it to that element and then tracks the path under that
\* element id (update_file_state + save), unless the workspace has moved
\* since the pull: by the submission of a file pushed before it in this
\* loop, and then the push is blocked as a conflict and tracks nothing
NamesPush ==
    /\ names.pc = "pushing"
    /\ names.pushTodo # <<>>
    /\ LET stem       == Head(names.pushTodo)
           element_id == get(names.sidecar, stem, "")
           pushes     == element_id # "" /\ ~names.submitted
       IN  names' = [names EXCEPT !.pushTodo = Tail(names.pushTodo),
                                  !.pc = IF Tail(names.pushTodo) = <<>>
                                         THEN "pushed" ELSE "pushing",
                                  !.resolved = Put(names.resolved, stem, element_id),
                                  !.submitted = names.submitted \/ pushes,
                                  !.tracked = IF pushes
                                              THEN Put(names.tracked, stem, element_id)
                                              ELSE names.tracked]
    /\ UNCHANGED <<elems, remoteContent, remoteVer, local, mem, disk, backups, clock, run, op,
                   hist, pol, det, sidecar, proj, walk, codec, dirs>>

InitNames ==
    /\ elems = {"d1/x.fs", "d1/y.fs"}
    /\ remoteContent = [f \in elems |-> 1]
    /\ remoteVer = [d \in Docs |-> 1]
    /\ local = [f \in elems |-> Absent]
    /\ mem = Unloaded
    /\ disk = [ok |-> TRUE, files |-> EmptyMap]
    /\ backups = EmptyMap
    /\ clock = 1
    /\ run = NoRun
    /\ op = IdleOp
    /\ hist = Hist0
    /\ pol = PolIdle
    /\ det = DetIdle
    /\ sidecar = [d \in Docs |-> NoSidecar]
    /\ proj = Proj0
    /\ walk = WalkIdle
    /\ codec = CodecIdle
    /\ dirs = {"."}
    /\ \E name \in [ElementIds -> ElementNames] :
          /\ name["e1"] # name["e2"]
          /\ names = [pc |-> "pulling", name |-> name, todo |-> <<"e1", "e2">>,
                      files |-> EmptyMap, tracked |-> EmptyMap,
                      feature_studios |-> EmptyMap, sidecar |-> EmptyMap,
                      pushTodo |-> <<>>, submitted |-> FALSE,
                      resolved |-> EmptyMap]

NextNames ==
    \/ NamesPull
    \/ NamesSaveMetadata
    \/ NamesPushDocumentFolder
    \/ NamesPush

SpecNames == InitNames /\ [][NextNames]_vars

\* ------------------------------------- operations.py: local I/O that raises
\* the engine with the local file system failing under it: every call of a
\* handler's try block that touches the disk may raise, and the handler's
\* `except Exception` returns the failure outcome

\* SyncState.state raises: _load_state cannot open or read the state file,
\* which exists, at the first use of the store, which is the conflict check
\* or, with force, update_file_state after the transfer; nothing is loaded
LoadStateRaises ==
    /\ hist.nFaults < MaxFaults
    /\ hist' = [hist EXCEPT !.nFaults = hist.nFaults + 1]
    /\ ~mem.loaded
    /\ disk.ok /\ disk.files # EmptyMap
    /\ \/ op.pc \in {"fetched", "looked"} /\ ~run.force
       \/ op.pc \in {"written", "submitted"}
    /\ Return(SyncResult(FALSE, "Failed", FALSE, FALSE))
    /\ UNCHANGED <<elems, remoteContent, remoteVer, local, mem, disk, backups, clock, pol, det, sidecar, proj, walk, codec, names, dirs>>

\* _pull_feature_studio: detect_pull_conflict raises in hash_file, whose
\* read_text of the existing local file fails after get_file_state has
\* loaded the store
HashFileRaises ==
    /\ hist.nFaults < MaxFaults
    /\ hist' = [hist EXCEPT !.nFaults = hist.nFaults + 1]
    /\ op.kind = "pull" /\ op.pc = "fetched"
    /\ ~run.force /\ ~StateRaises
    /\ local[op.file] # Absent
    /\ mem' = [loaded |-> TRUE, files |-> LoadedFiles]
    /\ Return(SyncResult(FALSE, "Failed", FALSE, FALSE))
    /\ UNCHANGED <<elems, remoteContent, remoteVer, local, disk, backups, clock, pol, det, sidecar, proj, walk, codec, names, dirs>>

\* _push_feature_studio: filepath.read_text raises on the existing file
ReadRaises ==
    /\ hist.nFaults < MaxFaults
    /\ hist' = [hist EXCEPT !.nFaults = hist.nFaults + 1]
    /\ op.kind = "push" /\ op.pc = "checked"
    /\ local[op.file] # Absent
    /\ Return(SyncResult(FALSE, "Failed", FALSE, FALSE))
    /\ UNCHANGED <<elems, remoteContent, remoteVer, local, mem, disk, backups, clock, pol, det, sidecar, proj, walk, codec, names, dirs>>

\* _pull_feature_studio: _backup_file raises: in mkdir or on opening the
\* backup file, and nothing is copied; in shutil.copy2 after the backup
\* file was opened, which leaves it with no bytes; or in shutil.copy2 after
\* the content was copied (copystat), which leaves the complete backup
BackupRaises ==
    /\ hist.nFaults < MaxFaults
    /\ op.kind = "pull" /\ op.pc = "checked"
    /\ backup_on_pull /\ local[op.file] # Absent
    /\ Return(SyncResult(FALSE, "Failed", FALSE, FALSE))
    /\ \/ /\ UNCHANGED backups
          /\ hist' = [hist EXCEPT !.nFaults = hist.nFaults + 1]
       \/ /\ backups' = Put(backups, BackupName(op.file), EmptyBackup)
          /\ hist' = [hist EXCEPT !.nFaults = hist.nFaults + 1]
       \/ /\ backups' = Put(backups, BackupName(op.file), <<op.file, local[op.file]>>)
          /\ hist' = [hist EXCEPT !.nFaults = hist.nFaults + 1,
                                  !.copies = hist.copies + 1]
    /\ UNCHANGED <<elems, remoteContent, remoteVer, local, mem, disk, clock, pol, det, sidecar, proj, walk, codec, names, dirs>>

\* _pull_feature_studio: filepath.write_text raises: on opening the file,
\* which is left as it was; in the write after the open, which leaves it
\* with no bytes; or in the close after the write, which leaves it with the
\* complete new content
WriteRaises ==
    /\ hist.nFaults < MaxFaults
    /\ hist' = [hist EXCEPT !.nFaults = hist.nFaults + 1]
    /\ op.kind = "pull" /\ op.pc = "backedup"
    /\ Return(SyncResult(FALSE, "Failed", FALSE, FALSE))
    /\ \/ UNCHANGED local
       \/ /\ DocOf(op.file) \in dirs
          /\ local' = [local EXCEPT ![op.file] = Truncated]
       \/ /\ DocOf(op.file) \in dirs
          /\ local' = [local EXCEPT ![op.file] = op.content]
    /\ UNCHANGED <<elems, remoteContent, remoteVer, mem, disk, backups, clock, pol, det, sidecar, proj, walk, codec, names, dirs>>

\* _pull_document_to_folder: _save_document_metadata raises, on opening
\* .document.json (the file is as it was), in json.dump after the open (the
\* file is left with no bytes) or in f.write("\n") after json.dump (the file
\* is complete); the except of _pull_document_to_folder adds one failed
\* result for the directory after the results of the files
SaveMetadataRaises(d) ==
    /\ hist.nFaults < MaxFaults
    /\ hist' = [hist EXCEPT !.nFaults = hist.nFaults + 1]
    /\ MetadataDue(d)
    /\ run' = [run EXCEPT !.meta = run.meta \ {d},
                          !.outcomes = Put(run.outcomes, d,
                                           SyncResult(FALSE, "Failed to pull document",
                                                      FALSE, FALSE))]
    /\ \/ UNCHANGED sidecar
       \/ sidecar' = [sidecar EXCEPT ![d] = TruncatedSidecar]
       \/ sidecar' = [sidecar EXCEPT ![d] =
                         [exists |-> TRUE, ok |-> TRUE,
                          feature_studios |-> {f \in elems : /\ DocOf(f) = d
                                                             /\ f \in DOMAIN run.outcomes
                                                             /\ run.outcomes[f].success}]]
    /\ UNCHANGED <<elems, remoteContent, remoteVer, local, mem, disk, backups, clock, op, pol, det, proj, walk, codec, names, dirs>>

\* SyncState.save raises in mkdir or open, after update_file_state has
\* changed the mapping in memory: the file is as it was
SaveOpenRaises ==
    /\ hist.nFaults < MaxFaults
    /\ hist' = [hist EXCEPT !.nFaults = hist.nFaults + 1]
    /\ op.pc = "updated"
    /\ Return(SyncResult(FALSE, "Failed", FALSE, FALSE))
    /\ UNCHANGED <<elems, remoteContent, remoteVer, local, mem, disk, backups, clock, pol, det, sidecar, proj, walk, codec, names, dirs>>

\* SyncState.save raises after open has truncated the file: in json.dump,
\* which leaves the file unreadable, or in f.write("\n") after json.dump has
\* written the whole mapping, which leaves the file complete
SaveDumpRaises ==
    /\ hist.nFaults < MaxFaults
    /\ hist' = [hist EXCEPT !.nFaults = hist.nFaults + 1]
    /\ op.pc = "saving"
    /\ Return(SyncResult(FALSE, "Failed", FALSE, FALSE))
    /\ \/ UNCHANGED disk
       \/ disk' = [ok |-> TRUE, files |-> mem.files]
    /\ UNCHANGED <<elems, remoteContent, remoteVer, local, mem, backups, clock, pol, det, sidecar, proj, walk, codec, names, dirs>>

NextFaults ==
    \/ \E kind \in {"pull", "push"}, force \in BOOLEAN, dry \in BOOLEAN : StartRun(kind, force, dry)
    \/ pull_folder
    \/ pull_document_to_folder
    \/ pull_document
    \/ push_folder
    \/ push_document_folder
    \/ push_document
    \/ PullDryRun
    \/ BeginFile
    \/ \E d \in Docs : SaveDocumentMetadata(d)
    \/ PushUnmapped
    \/ PullFetch
    \/ PullCheck
    \/ LoadStateRaises
    \/ HashFileRaises
    \/ PullBackup
    \/ BackupRaises
    \/ \E d \in Docs : SaveMetadataRaises(d)
    \/ PullWrite
    \/ WriteRaises
    \/ PullUpdate
    \/ PushLookup
    \/ PushCheck
    \/ PushSubmit
    \/ ReadRaises
    \/ PushUpdate
    \/ SaveOpen
    \/ SaveOpenRaises
    \/ SaveDump
    \/ SaveDumpRaises
    \/ \E fault \in BOOLEAN : LoadMetadataRaises(fault)
    \/ EndRun
    \/ \E d \in Docs : MakeDir(d)
    \/ \E f \in elems, c \in Contents : LocalEdit(f, c)

SpecFaults == Init /\ [][NextFaults]_vars


\* ================================================================ claims
\* the tracked state of f as the running command sees it
Tracked(f) == get_file_state(LoadedFiles, f)

\* the per-file handler takes its conflict-check step (not a crash, not an
\* edit by somebody else)
CheckStep(kind, pcBefore) ==
    /\ op.kind = kind /\ op.pc = pcBefore
    /\ op'.pc \in {"checked", "done"}

\* the state store, in memory and on disk, is left as it was
StateStoreKept ==
    /\ disk' = disk
    /\ mem'.files = LoadedFiles

ConflictOutcome(r) == r.conflict /\ ~r.success

\* C1: a push without force never submits a tracked file's content when the
\* workspace microversion at the moment of submission differs from the
\* tracked remote_microversion of that file.
C1_PushNeverClobbers ==
    [][ ( /\ op.kind = "push" /\ op.pc = "checked" /\ op'.pc = "submitted"
          /\ ~run.force
          /\ Tracked(op.file) # None )
        => remoteVer[DocOf(op.file)] = Tracked(op.file).remote_microversion ]_vars

\* C2: in a pull without force, a tracked file whose local hash and fetched
\* remote version both differ from the tracked ones is left alone: local
\* file, backup directory and tracked state (memory and disk) are unchanged
\* and the outcome has success = false, conflict = true.
C2_PullBothChangedBlocked ==
    [][ ( /\ CheckStep("pull", "fetched")
          /\ ~run.force /\ ~StateRaises
          /\ Tracked(op.file) # None
          /\ local[op.file] # Absent
          /\ hash_file(op.file) # Tracked(op.file).local_hash
          /\ op.ver # Tracked(op.file).remote_microversion )
        => /\ op'.pc = "done" /\ ~op'.xfer
           /\ local' = local /\ backups' = backups
           /\ StateStoreKept
           /\ op.file \in DOMAIN run'.outcomes
           /\ ConflictOutcome(run'.outcomes[op.file]) ]_vars

C2_Witness ==
    /\ op.kind = "pull" /\ op.pc = "done" /\ ~run.force
    /\ op.conflict = BOTH_CHANGED
    /\ Tracked(op.file) # None
    /\ local[op.file] # Absent
    /\ hash_file(op.file) # Tracked(op.file).local_hash
    /\ op.ver # Tracked(op.file).remote_microversion
    /\ ConflictOutcome(run.outcomes[op.file])

\* C3: in a push without force, a tracked file whose live remote version
\* differs from the tracked one is not submitted: the remote and the tracked
\* state are unchanged and the outcome has success = false, conflict = true.
C3_PushRemoteChangedBlocked ==
    [][ ( /\ CheckStep("push", "looked")
          /\ ~run.force /\ ~StateRaises
          /\ Tracked(op.file) # None
          /\ op.ver # Tracked(op.file).remote_microversion )
        => /\ op'.pc = "done" /\ ~op'.xfer
           /\ remoteContent' = remoteContent /\ remoteVer' = remoteVer
           /\ StateStoreKept
           /\ op.file \in DOMAIN run'.outcomes
           /\ ConflictOutcome(run'.outcomes[op.file]) ]_vars

C3_Witness ==
    /\ op.kind = "push" /\ op.pc = "done" /\ ~run.force
    /\ op.conflict = BOTH_CHANGED
    /\ Tracked(op.file) # None
    /\ op.ver # Tracked(op.file).remote_microversion
    /\ remoteContent[op.file] # local[op.file]
    /\ ConflictOutcome(run.outcomes[op.file])

\* C4: a pull that follows a fully successful pull, with no remote, local or
\* tracked-state change in between, writes no local file, makes no backup,
\* and reports every file as skipped and conflict-free.
C4_SecondPullIsNoOp ==
    (run.kind = "pull" /\ ~run.dry /\ hist.startedCalm /\ ~hist.disturbed)
    => /\ hist.writes = 0
       /\ hist.copies = 0
       /\ \A f \in DOMAIN run.outcomes :
             run.outcomes[f].message # "Failed"
             => run.outcomes[f].skipped /\ ~run.outcomes[f].conflict

\* C5: a pull without force that re-runs a pull interrupted after a file was
\* written and before its state was saved, with no edit in between, does not
\* report that file as a conflict, and a success leaves it tracked at the
\* hash of the current remote content and the current remote version.
C5_RerunAfterCrashCompletes ==
    (run.kind = "pull" /\ hist.recovering # "" /\ ~hist.disturbed
       /\ hist.recovering \in DOMAIN run.outcomes)
    => LET f == hist.recovering
           r == run.outcomes[f]
       IN  /\ ~r.conflict
           /\ r.success => Tracked(f) = FileState(compute_hash(remoteContent[f]),
                                                  remoteVer[DocOf(f)], f)

\* the files whose transfer and state save both completed in this command
Completed ==
    {f \in DOMAIN run.outcomes : run.outcomes[f].success /\ ~run.outcomes[f].skipped}

\* C6: at every point where a pull or push can be interrupted, the state
\* file is a loadable mapping that holds the new entry of exactly the files
\* completed in this command and the entry from before the command for every
\* other path.
C6_StateFileCrashConsistent ==
    run.kind # "none"
    => /\ disk.ok
       /\ \A f \in elems :
             get_file_state(disk.files, f) =
                IF f \in Completed THEN Tracked(f)
                ELSE get_file_state(hist.disk0.files, f)

\* C7: a path's tracked state differs from what the command started with, in
\* memory or on disk, only after that path's transfer completed in this
\* command; the state-update steps are reached only by an operation whose
\* transfer is done; a failed, blocked or dry-run file keeps its state.
C7_StateOnlyAfterTransfer ==
    /\ \A f \in elems :
          ( \/ mem.loaded /\ get_file_state(mem.files, f) # get_file_state(hist.disk0.files, f)
            \/ disk.ok /\ get_file_state(disk.files, f) # get_file_state(hist.disk0.files, f) )
          => f \in hist.xferred
    /\ op.pc \in {"updated", "saving"} => op.xfer /\ op.file \in hist.xferred
    /\ \A f \in DOMAIN run.outcomes :
          (~run.outcomes[f].success \/ run.outcomes[f].skipped)
          => /\ mem.loaded => get_file_state(mem.files, f) = get_file_state(hist.disk0.files, f)
             /\ disk.ok => get_file_state(disk.files, f) = get_file_state(hist.disk0.files, f)

C7_Witness ==
    /\ run.kind = "push" /\ op.pc = "saving" /\ op.xfer
    /\ Tracked(op.file) # get_file_state(hist.disk0.files, op.file)
    /\ \E g \in DOMAIN run.outcomes : ConflictOutcome(run.outcomes[g])

\* C8: push_working_directory raises the policy error, before the engine is
\* constructed, exactly for the push paths equal to or nested under the local
\* root of some reference.
C8_PushIntoReferenceRejected ==
    pol.pc \in {"raised", "engine"}
    => ( (\E root \in pol.refs : relative_to(pol.path, root)) <=> pol.pc = "raised" )

\* C9: in a pull without force, a tracked file that is missing locally while
\* the remote version differs from the tracked one is blocked: nothing is
\* written, the tracked state is unchanged and the outcome has
\* conflict = true, success = false.
C9_PullLocalDeletedBlocked ==
    [][ ( /\ CheckStep("pull", "fetched")
          /\ ~run.force /\ ~StateRaises
          /\ Tracked(op.file) # None
          /\ local[op.file] = Absent
          /\ op.ver # Tracked(op.file).remote_microversion )
        => /\ op'.pc = "done" /\ ~op'.xfer
           /\ local' = local
           /\ StateStoreKept
           /\ op.file \in DOMAIN run'.outcomes
           /\ ConflictOutcome(run'.outcomes[op.file]) ]_vars

\* C10: with backups enabled, every file content a pull has replaced by a
\* different one is still held by some file of the backup directory.
C10_OverwrittenContentBackedUp ==
    backup_on_pull
    => \A lost \in hist.overwritten : \E name \in DOMAIN backups : backups[name] = lost

\* C11: a pull with dry_run, over folder-found and configured documents
\* alike, fetches no element content, writes no local file and no backup,
\* leaves the state store in memory and on disk as it was, and reports every
\* element as skipped.
C11_DryRunPullTouchesNothing ==
    (run.kind = "pull" /\ run.dry)
    => /\ op.pc \in {"idle", "begin"}
       /\ hist.writes = 0 /\ hist.copies = 0 /\ hist.xferred = {}
       /\ ~mem.loaded /\ disk = hist.disk0
       /\ \A f \in DOMAIN run.outcomes : run.outcomes[f].skipped

\* C12: no step of a push with dry_run, forced or not, submits content,
\* moves a workspace to another microversion, or changes the tracked state
\* in memory or on disk.
C12_DryRunPushTouchesNothing ==
    [][ ( /\ run.kind = "push" /\ run.dry
          /\ run'.kind = "push"
          /\ <<op, run>>' # <<op, run>> )
        => /\ remoteContent' = remoteContent /\ remoteVer' = remoteVer
           /\ disk' = disk /\ LoadedFiles' = LoadedFiles
           /\ op'.pc \notin {"submitted", "updated", "saving"} /\ ~op'.xfer ]_vars

C12_Witness ==
    /\ run.kind = "push" /\ run.dry /\ run.force
    /\ \E f \in DOMAIN run.outcomes :
          /\ run.outcomes[f].skipped /\ run.outcomes[f].success
          /\ local[f] # remoteContent[f]
          /\ Tracked(f) # None
          /\ remoteVer[DocOf(f)] # Tracked(f).remote_microversion

\* the per-file handler is at a call to the remote
AtRemoteCall ==
    \/ op.pc = "begin"
    \/ op.kind = "push" /\ op.pc = "checked" /\ local[op.file] # Absent /\ ~run.dry

\* the loop takes the file at the head of the queue: it hands it to the
\* per-file handler or gives it its outcome at once
TakesHead ==
    /\ run'.todo = Tail(run.todo)
    /\ \/ op'.pc = "begin" /\ op'.file = Head(run.todo)
       \/ Head(run.todo) \in DOMAIN run'.outcomes

\* C13: when the remote call for a file fails, the file gets its one outcome,
\* with success = false and conflict = false, the tracked state and the
\* outcomes of the other files are as before and the files still to do stay
\* queued; with files queued the loop can always take the next one, the
\* queue only ever loses its head, to the handler or to an outcome, and a
\* file the handler is through with has its outcome.
C13_FailureIsPerFile ==
    /\ [][ ( /\ AtRemoteCall
             /\ run'.kind = run.kind
             /\ op'.pc = "done" )
           => /\ op.file \notin DOMAIN run.outcomes
              /\ DOMAIN run'.outcomes = DOMAIN run.outcomes \cup {op.file}
              /\ \A g \in DOMAIN run.outcomes : run'.outcomes[g] = run.outcomes[g]
              /\ ~run'.outcomes[op.file].success /\ ~run'.outcomes[op.file].conflict
              /\ disk' = disk /\ LoadedFiles' = LoadedFiles
              /\ run'.todo = run.todo ]_vars
    /\ []( (run.kind # "none" /\ op.pc \in {"idle", "done"} /\ run.todo # <<>>)
           => ENABLED (BeginFile \/ PullDryRun \/ PushUnmapped) )
    /\ []( op.pc = "done" => op.file \in DOMAIN run.outcomes )
    /\ [][ (run.todo # <<>> /\ run'.kind = run.kind /\ run'.todo # run.todo)
           => TakesHead ]_vars

C13_Witness ==
    /\ run.kind = "pull" /\ run.force /\ ~run.dry
    /\ \E f, g \in DOMAIN run.outcomes :
          /\ f # g
          /\ run.outcomes[f].message = "Failed" /\ f \notin hist.xferred
          /\ op.file = g /\ op.pc = "done"
          /\ run.outcomes[g].success /\ ~run.outcomes[g].skipped /\ g \in hist.xferred

\* pull_all / push_all has gone through its files and returns run.outcomes
RunOver ==
    /\ run.kind # "none" /\ run.docs = <<>> /\ run.todo = <<>>
    /\ op.pc \in {"idle", "done"} /\ run.meta = {}

\* C14: a run with a file outcome that has conflict = true or success = false
\* makes every command that performs it exit non-zero: pull and push, and,
\* for a working project, get and pushproject.
C14_TroubleMeansNonZeroExit ==
    ( /\ RunOver
      /\ \E f \in DOMAIN run.outcomes : run.outcomes[f].conflict \/ ~run.outcomes[f].success )
    => /\ run.kind = "pull" => cmd_pull(run.outcomes) # 0
       /\ run.kind = "push" => cmd_push(run.outcomes) # 0
       /\ (run.kind = "pull" /\ IsProject) => cmd_get(run.pre, run.outcomes) # 0
       /\ (run.kind = "push" /\ IsProject) => cmd_push_new(run.pre, run.outcomes) # 0

\* the last direct call was a pull check / a push check
PullCall == det.last # None /\ det.last.kind = "pull"
PushCall == det.last # None /\ det.last.kind = "push"

\* C15: for a tracked path whose local file hashes to something else than the
\* tracked local_hash while the remote version differs from the tracked
\* remote_microversion, detect_pull_conflict returns BOTH_CHANGED, whatever
\* the force flag of the command is.
C15_BothChangedClassified ==
    PullCall =>
       LET c == det.last
       IN  ( /\ c.previous_state # None
             /\ c.file_exists
             /\ c.current_hash # c.previous_state.local_hash
             /\ c.remote_microversion # c.previous_state.remote_microversion )
           => c.result.conflict_type = BOTH_CHANGED

C15_Witness ==
    /\ PullCall /\ det.last.force
    /\ det.last.previous_state # None
    /\ det.last.file_exists
    /\ det.last.current_hash # det.last.previous_state.local_hash
    /\ det.last.remote_microversion # det.last.previous_state.remote_microversion
    /\ det.last.result.conflict_type = BOTH_CHANGED

\* C16: for a path without tracked state detect_pull_conflict returns NONE
\* with the "New file" message, whether or not a local file exists and
\* whatever the remote version is.
C16_UntrackedIsNewFile ==
    (PullCall /\ det.last.previous_state = None)
    => det.last.result = ConflictInfo(NONE, "New file, safe to pull")

C16_Witness ==
    /\ PullCall
    /\ det.last.previous_state = None
    /\ det.last.file_exists
    /\ det.last.result.conflict_type = NONE

\* C17: for a tracked path whose local hash equals the tracked local_hash and
\* whose remote version equals the tracked remote_microversion,
\* detect_pull_conflict returns NONE with the "Already in sync" message.
C17_UnchangedIsInSync ==
    PullCall =>
       LET c == det.last
       IN  ( /\ c.previous_state # None
             /\ c.current_hash = c.previous_state.local_hash
             /\ c.remote_microversion = c.previous_state.remote_microversion )
           => c.result = ConflictInfo(NONE, "Already in sync")

C17_Witness ==
    /\ PullCall
    /\ det.last.previous_state # None
    /\ det.last.current_hash = det.last.previous_state.local_hash
    /\ det.last.remote_microversion = det.last.previous_state.remote_microversion
    /\ det.last.result.message = "Already in sync"

\* C18: for a tracked path whose local file does not exist,
\* detect_pull_conflict returns LOCAL_DELETED iff the remote version differs
\* from the tracked one, NONE with the "Local deleted, remote unchanged"
\* message otherwise, and never BOTH_CHANGED.
C18_MissingLocalFile ==
    PullCall =>
       LET c == det.last
       IN  (c.previous_state # None /\ ~c.file_exists)
           => IF c.remote_microversion # c.previous_state.remote_microversion
              THEN c.result.conflict_type = LOCAL_DELETED
              ELSE c.result = ConflictInfo(NONE,
                                  "Local deleted, remote unchanged - safe to skip or restore")

C18_Witness ==
    /\ PullCall
    /\ det.last.previous_state # None
    /\ ~det.last.file_exists
    /\ det.last.remote_microversion # det.last.previous_state.remote_microversion
    /\ det.last.result.conflict_type = LOCAL_DELETED

\* C19: detect_push_conflict returns BOTH_CHANGED, with the message that
\* points to --force, iff the path is tracked and the remote version differs
\* from the tracked one; NONE "New file, safe to push" for an untracked path
\* and NONE "Safe to push" for equal versions.
C19_PushClassification ==
    PushCall =>
       LET c == det.last
       IN  c.result =
              IF c.previous_state = None
              THEN ConflictInfo(NONE, "New file, safe to push")
              ELSE IF c.remote_microversion # c.previous_state.remote_microversion
              THEN ConflictInfo(BOTH_CHANGED,
                       "Remote has changed since last sync - use --force to override")
              ELSE ConflictInfo(NONE, "Safe to push")

C19_Witness ==
    /\ PushCall
    /\ det.last.previous_state # None
    /\ det.last.remote_microversion # det.last.previous_state.remote_microversion
    /\ det.last.result.conflict_type = BOTH_CHANGED

\* the direct calls of detect_push_conflict on record, each with the tracked
\* state and the remote version it was made on, the hash of the local file
\* at the time (None: no file) and the kind it returned
PushChecks ==
    {[previous_state |-> c.previous_state, remote_microversion |-> c.remote_microversion,
      local_hash |-> c.current_hash, conflict_type |-> c.result.conflict_type] :
        c \in {x \in {det.last, det.earlier} : x # None /\ x.kind = "push"}}

\* the check of the engine's per-file push returns the kind that every
\* direct call on record returned on the same tracked state and version
EngineAgrees ==
    \A c \in PushChecks :
       (c.previous_state = Tracked(op.file) /\ c.remote_microversion = op.ver)
       => op'.conflict = c.conflict_type

\* C20: two push checks made on the same tracked state and the same remote
\* version return the same conflict kind, whatever the local file is at
\* either check (unedited, edited or missing): for two direct calls of the
\* detector, and for the check inside the engine's push against the direct
\* calls.
C20_PushCheckIgnoresLocal ==
    /\ [](\A a, b \in PushChecks :
             (a.previous_state = b.previous_state
              /\ a.remote_microversion = b.remote_microversion)
             => a.conflict_type = b.conflict_type)
    /\ [][ (CheckStep("push", "looked") /\ ~run.force /\ ~StateRaises)
           => EngineAgrees ]_vars

\* two direct calls on one tracked state and version, one with the local
\* file as tracked and one with it edited or deleted, and the engine's push
\* blocked by its own check on the same tracked state and version with the
\* file not as tracked
C20_Witness ==
    \E a, b \in PushChecks :
       /\ a.previous_state # None
       /\ a.previous_state = b.previous_state
       /\ a.remote_microversion = b.remote_microversion
       /\ a.local_hash = a.previous_state.local_hash
       /\ b.local_hash # a.previous_state.local_hash
       /\ op.kind = "push" /\ op.pc = "done" /\ op.conflict = BOTH_CHANGED
       /\ Tracked(op.file) = a.previous_state
       /\ op.ver = a.remote_microversion
       /\ hash_file(op.file) # a.previous_state.local_hash

\* the per-file pull handler takes its step from the backup on and the
\* command goes on
PullWriteStep ==
    /\ op.kind = "pull" /\ op.pc = "backedup"
    /\ op'.pc # "backedup" /\ run'.kind = run.kind

\* the step leaves the fetched content in the local file
WroteFetched ==
    /\ op'.pc = "written"
    /\ local'[op.file] = op.content

\* the per-file pull handler returned success for op.file and the tracked
\* state is (hash of the fetched content, fetched version)
PulledAndRecorded ==
    /\ op.file \in DOMAIN run.outcomes
    /\ run.outcomes[op.file].success /\ ~run.outcomes[op.file].conflict
    /\ Tracked(op.file) = FileState(compute_hash(op.content), op.ver, op.file)

\* C21 (Scenario A): a pull without force of a tracked file whose local hash
\* is the tracked one while the fetched version differs from the tracked one
\* finds no conflict ("Safe to pull"); the handler then writes the fetched
\* content and ends with the tracked state (hash of fetched content, fetched
\* version).
C21_ScenarioA_RemoteOnly ==
    /\ [][ ( /\ CheckStep("pull", "fetched")
             /\ ~run.force
             /\ Tracked(op.file) # None
             /\ hash_file(op.file) = Tracked(op.file).local_hash
             /\ op.ver # Tracked(op.file).remote_microversion )
           => /\ op'.pc = "checked"
              /\ op'.conflict = NONE
              /\ op'.message = "Safe to pull"
              /\ run'.outcomes = run.outcomes ]_vars
    /\ [][ (PullWriteStep /\ op.message = "Safe to pull") => WroteFetched ]_vars
    /\ []( (op.kind = "pull" /\ op.message = "Safe to pull" /\ op.pc = "done")
           => PulledAndRecorded )

C21_Witness ==
    /\ op.kind = "pull" /\ op.pc = "done" /\ op.message = "Safe to pull"
    /\ ~run.force
    /\ op.file \in DOMAIN hist.disk0.files
    /\ hist.disk0.files[op.file].remote_microversion # op.ver
    /\ hist.disk0.files[op.file].local_hash # compute_hash(op.content)
    /\ local[op.file] = op.content
    /\ PulledAndRecorded

\* C22 (Scenario B): a pull without force of a tracked file whose local hash
\* differs from the tracked one while the fetched version is the tracked one
\* is classified NONE with the overwrite warning; the handler proceeds,
\* replaces the local content with the fetched one and ends with the tracked
\* state (hash of fetched content, that same version).
C22_ScenarioB_LocalOnly ==
    /\ [][ ( /\ CheckStep("pull", "fetched")
             /\ ~run.force
             /\ Tracked(op.file) # None
             /\ hash_file(op.file) # None
             /\ hash_file(op.file) # Tracked(op.file).local_hash
             /\ op.ver = Tracked(op.file).remote_microversion )
           => /\ op'.pc = "checked"
              /\ op'.conflict = NONE
              /\ op'.message = "Warning: Local changes will be overwritten"
              /\ run'.outcomes = run.outcomes ]_vars
    /\ [][ (PullWriteStep /\ op.message = "Warning: Local changes will be overwritten")
           => WroteFetched ]_vars
    /\ []( ( /\ op.kind = "pull" /\ op.pc = "done"
             /\ op.message = "Warning: Local changes will be overwritten" )
           => /\ PulledAndRecorded
              /\ op.file \in DOMAIN hist.disk0.files
              /\ op.ver = hist.disk0.files[op.file].remote_microversion )

C22_Witness ==
    /\ op.kind = "pull" /\ op.pc = "done"
    /\ op.message = "Warning: Local changes will be overwritten"
    /\ ~run.force
    /\ <<op.file, 2>> \in hist.overwritten
    /\ op.content = 1
    /\ local[op.file] = op.content
    /\ PulledAndRecorded

\* C23 (Scenario C with force): in a pull with force the handler goes from
\* the fetch straight on, whatever the tracked state, the local file and the
\* fetched version are, so a forced pull has no conflict outcome; where the
\* directory of the file exists its write step leaves the fetched content in
\* the file, and for a written file that was tracked when the command
\* started it ends with the tracked state (hash of fetched content, fetched
\* version).
C23_ScenarioC_ForcedPull ==
    /\ [][ ( /\ CheckStep("pull", "fetched")
             /\ run.force )
           => /\ op'.pc = "checked"
              /\ run'.outcomes = run.outcomes ]_vars
    /\ [][ (PullWriteStep /\ run.force /\ DocOf(op.file) \in dirs) => WroteFetched ]_vars
    /\ []( (run.kind = "pull" /\ run.force)
           => /\ \A f \in DOMAIN run.outcomes : ~run.outcomes[f].conflict
              /\ (op.kind = "pull" /\ op.pc = "done" /\ op.file \in DOMAIN hist.disk0.files)
                    => (op.xfer => PulledAndRecorded) )

C23_Witness ==
    /\ op.kind = "pull" /\ op.pc = "backedup" /\ run.force
    /\ Tracked(op.file) # None
    /\ hash_file(op.file) # None
    /\ hash_file(op.file) # Tracked(op.file).local_hash
    /\ op.ver # Tracked(op.file).remote_microversion
    /\ op.content # local[op.file]

\* the per-file push handler returned success for op.file after a submission,
\* and the tracked state is (hash of the submitted content, returned version)
PushedAndRecorded ==
    /\ op.file \in DOMAIN run.outcomes
    /\ run.outcomes[op.file].success /\ ~run.outcomes[op.file].skipped
    /\ Tracked(op.file) = FileState(compute_hash(op.content), op.ver, op.file)

\* C24 (Scenario D with force): in a push with force the handler goes from
\* the version lookup straight on, also when the tracked version differs from
\* the live one; without dry run it submits the local content, and a handler
\* that returns success has recorded the microversion the submission returned
\* and the hash of the submitted content.
C24_ScenarioD_ForcedPush ==
    /\ [][ ( /\ CheckStep("push", "looked")
             /\ run.force )
           => /\ op'.pc = "checked"
              /\ run'.outcomes = run.outcomes ]_vars
    /\ [][ ( /\ op.kind = "push" /\ op.pc = "checked" /\ op'.pc = "submitted"
             /\ run.force )
           => /\ ~run.dry
              /\ remoteContent'[op.file] = local[op.file]
              /\ op'.content = local[op.file]
              /\ op'.ver = remoteVer'[DocOf(op.file)]
              /\ op'.ver # remoteVer[DocOf(op.file)] ]_vars
    /\ []( (run.kind = "push" /\ run.force)
           => /\ \A f \in DOMAIN run.outcomes : ~run.outcomes[f].conflict
              /\ ( /\ op.kind = "push" /\ op.pc = "done"
                   /\ op.file \in DOMAIN run.outcomes
                   /\ run.outcomes[op.file].success /\ ~run.outcomes[op.file].skipped )
                 => PushedAndRecorded )

C24_Witness ==
    /\ op.kind = "push" /\ op.pc = "done" /\ run.force /\ ~run.dry
    /\ op.file \in DOMAIN hist.disk0.files
    /\ hist.disk0.files[op.file].remote_microversion # op.ver - 1
    /\ PushedAndRecorded

\* C25: with force, on a file the detector classifies BOTH_CHANGED, the
\* handler goes on to the transfer and the BOTH_CHANGED report is still
\* computed by the handler (held in its `conflict`).
C25_ForceStillReports ==
    [][ ( /\ \/ CheckStep("pull", "fetched")
             \/ CheckStep("push", "looked")
          /\ run.force
          /\ ~StateRaises
          /\ BOTH_CHANGED =
               IF op.kind = "pull"
               THEN detect_pull_conflict(Tracked(op.file), hash_file(op.file),
                                         op.ver).conflict_type
               ELSE detect_push_conflict(op.file, op.ver).conflict_type )
        => /\ op'.pc = "checked"
           /\ op'.conflict = BOTH_CHANGED ]_vars

\* the result _push_document_folder gives a file the sidecar does not map
PullFirst(r) ==
    /\ ~r.success /\ ~r.conflict /\ ~r.skipped
    /\ r.message = "No element ID found - pull first"

\* C26: in a folder push a local file whose name has no entry in the sidecar
\* map of its directory gets a failed outcome that says to pull first; the
\* per-file handler is not entered for it, so nothing is read from or sent to
\* the remote for that file, the other files of the directory stay queued,
\* and while a push has files queued its loop can take the next one.
C26_UnmappedFileFailsAlone ==
    /\ [][ ( /\ run.kind = "push" /\ run'.kind = "push"
             /\ run.todo # <<>>
             /\ ElementIdSource(Head(run.todo)) = "sidecar"
             /\ SidecarId(Head(run.todo)) = None
             /\ run'.todo # run.todo )
           => /\ run'.todo = Tail(run.todo)
              /\ DOMAIN run'.outcomes = DOMAIN run.outcomes \cup {Head(run.todo)}
              /\ PullFirst(run'.outcomes[Head(run.todo)])
              /\ \A g \in DOMAIN run.outcomes : run'.outcomes[g] = run.outcomes[g]
              /\ op' = op
              /\ UNCHANGED <<remoteContent, remoteVer, mem, disk>> ]_vars
    /\ []( /\ (op.kind = "push" /\ ElementIdSource(op.file) = "sidecar")
              => SidecarId(op.file) # None
           /\ (run.kind = "push" /\ op.pc \in {"idle", "done"} /\ run.todo # <<>>)
              => ENABLED (BeginFile \/ PushUnmapped) )

C26_Witness ==
    /\ run.kind = "push" /\ RunOver /\ ~run.dry
    /\ \E f, g \in DOMAIN run.outcomes :
          /\ PullFirst(run.outcomes[f])
          /\ local[f] # Absent /\ sidecar[DocOf(f)].exists /\ SidecarId(f) = None
          /\ DocOf(g) = DocOf(f)
          /\ run.outcomes[g].success /\ ~run.outcomes[g].skipped /\ g \in hist.xferred

\* C27: on every push path the per-file handler is entered only with an
\* element id read from the sidecar map of the file's directory, never with
\* one found by name in the live element listing; so no file of a document
\* directory without a sidecar is submitted.
C27_IdOnlyFromSidecar ==
    /\ []( (op.kind = "push" /\ op.pc # "idle")
           => /\ ElementIdSource(op.file) = "sidecar"
              /\ SidecarId(op.file) = ElementOf(op.file) )
    /\ [][ (op.kind = "push" /\ op'.pc = "submitted" /\ op.pc # "submitted")
           => sidecar[DocOf(op.file)].exists ]_vars

\* C28: no step of a pull or of a push takes a path out of the state store:
\* the tracked paths the command sees never shrink from one step to the next,
\* and what was tracked on disk when the command started is tracked in memory
\* and (whenever the state file is whole) on disk for as long as the command
\* runs; this covers a tracked file deleted locally and an element whose
\* remote calls fail.
C28_TrackedPathsNeverShrink ==
    /\ [][ hist'.nCrashes = hist.nCrashes
           => DOMAIN LoadedFiles \subseteq DOMAIN LoadedFiles' ]_vars
    /\ []( run.kind \in {"pull", "push"}
           => /\ DOMAIN hist.disk0.files \subseteq DOMAIN LoadedFiles
              /\ disk.ok => DOMAIN hist.disk0.files \subseteq DOMAIN disk.files )

C28_Witness ==
    /\ run.kind \in {"pull", "push"} /\ RunOver /\ ~run.dry
    /\ \E f, g \in DOMAIN hist.disk0.files :
          /\ local[f] = Absent
          /\ f \in DOMAIN disk.files
          /\ g \in DOMAIN run.outcomes
          /\ ~run.outcomes[g].success /\ ~run.outcomes[g].conflict
          /\ g \in DOMAIN disk.files
    /\ \E h \in DOMAIN run.outcomes : run.outcomes[h].success /\ h \in hist.xferred

\* the running command is not a dry run and has an outcome with success and
\* without skipped
RealTransfer ==
    /\ ~run.dry
    /\ \E f \in DOMAIN run.outcomes : run.outcomes[f].success /\ ~run.outcomes[f].skipped

\* the project command returns
ProjectReturns == RunOver /\ run'.kind = "none"

\* C29: last_pull / last_push of the project change during get / pushproject
\* only at the end of a run that was not a dry run and has an outcome with
\* success and without skipped, and then only the stamp of that direction
\* changes, to the time of the run; at the end of every other run, and at
\* every other step, both are as before (add_project, which enters a new
\* project with no stamps and drops it again when its initial pull cannot be
\* started, is not a step of the two commands).
C29_StampOnlyAfterRealTransfer ==
    [][ /\ ( /\ proj'.state # "adding"
             /\ ~(proj.state = "adding" /\ run.kind = "none")
             /\ \/ proj'.last_pull # proj.last_pull
                \/ proj'.last_push # proj.last_push )
           => (ProjectReturns /\ RealTransfer)
        /\ (ProjectReturns /\ RealTransfer /\ run.kind = "pull")
              => /\ proj'.last_pull = Now /\ proj.last_pull # Now
                 /\ proj'.last_push = proj.last_push
        /\ (ProjectReturns /\ RealTransfer /\ run.kind = "push")
              => /\ proj'.last_push = Now /\ proj.last_push # Now
                 /\ proj'.last_pull = proj.last_pull ]_vars

C29_Witness ==
    /\ proj.last_pull = 1 /\ proj.last_push = 3
    /\ hist.nRuns = 3 /\ run.kind = "none"

\* C30: the recursive enumeration of a folder's documents is never more than
\* max_depth folder levels below the configured folder and never runs into
\* the recursion limit, on any hierarchy, also one in which a folder is listed
\* directly or transitively inside itself.
C30_EnumerationDepthBounded ==
    /\ Len(walk.stack) - 1 <= max_depth
    /\ walk.pc # "RecursionError"

\* C31: a state-file structure or a sidecar structure put through to_dict and
\* from_dict, directly or by way of the file and a fresh load, comes back with
\* every field as it was, for empty files maps, empty element maps and empty
\* strings as for any other value.
C31_EncodingRoundTrip ==
    codec.pc = "decoded" => codec.y = codec.x

C31_Witness ==
    /\ codec.pc = "decoded" /\ codec.via = "loaded" /\ codec.kind = "state"
    /\ codec.y = codec.x
    /\ DOMAIN codec.x.files = {"p.fs", "q.fs"}
    /\ codec.x.files["p.fs"].remote_microversion = "v"
    /\ codec.x.files["q.fs"].last_sync = ""

\* the submissions the running push has made to the document of f
OwnSubmissions(f) == Cardinality({g \in hist.xferred : DocOf(g) = DocOf(f)})

\* C32: in a push without force of a folder document's directory, a tracked
\* file whose document version differs from the tracked one only by the
\* submissions this run has made itself passes the conflict check (and so is
\* submitted, not reported as a conflict).
C32_OwnSubmissionsAreNoConflict ==
    [][ ( /\ CheckStep("push", "looked")
          /\ ~run.force
          /\ ConfiguredAs(DocOf(op.file)) = "folder"
          /\ Tracked(op.file) # None
          /\ op.ver = Tracked(op.file).remote_microversion + OwnSubmissions(op.file) )
        => /\ op'.pc = "checked"
           /\ op'.conflict = NONE ]_vars

\* C33: when a folder pull rewrites the sidecar of a document, every element
\* that was mapped before (all of them still exist remotely) is still mapped,
\* also one whose pull in this run was blocked by a conflict or failed.
C33_SidecarKeepsMappings ==
    [][ \A d \in Docs :
           sidecar[d].exists
           => sidecar[d].feature_studios \subseteq sidecar'[d].feature_studios ]_vars

\* C34: after a folder pull that wrote every element of a document to a file
\* of its own, the push resolves each written file, by its stem, through the
\* sidecar to the id of the element it was written from, whatever the
\* element's name is.
C34_PushResolvesPulledFile ==
    ( /\ names.pc = "pushed"
      /\ sanitize_filename(names.name["e1"]) # sanitize_filename(names.name["e2"]) )
    => \A e \in ElementIds : names.resolved[sanitize_filename(names.name[e])] = e

\* C38: in one pull of a document two distinct elements are never written to
\* the same local file nor tracked under the same path: after the pull every
\* element has the file and the tracked entry of its own.
C38_DistinctElementsDistinctPaths ==
    names.pc = "pulled"
    => /\ sanitize_filename(names.name["e1"]) # sanitize_filename(names.name["e2"])
       /\ \A e \in ElementIds :
             /\ names.files[sanitize_filename(names.name[e])] = e
             /\ names.tracked[sanitize_filename(names.name[e])] = e

\* C35: a project pull without force and without dry run, for a project with
\* a tracked file that was modified locally while the remote is unchanged, is
\* not blocked: get_working_directory gets past its check and calls the
\* engine pull.
C35_LocalEditDoesNotBlockProjectPull ==
    ( /\ IsProject
      /\ run.kind = "none"
      /\ hist.nRuns < MaxRuns
      /\ disk.ok
      /\ \E f \in elems :
            /\ Tracked(f) # None
            /\ local[f] # Absent
            /\ hash_file(f) # Tracked(f).local_hash
      /\ \A f \in elems :
            Tracked(f) # None => Tracked(f).remote_microversion = remoteVer[DocOf(f)] )
    => ENABLED StartProjectRun("pull", FALSE, FALSE)

\* C36: whenever a per-file pull or push has returned, with success or with
\* failure, the state file holds exactly the mapping the store has in memory.
C36_PersistedEqualsMemoryAtReturn ==
    (op.pc = "done" /\ mem.loaded) => (disk.ok /\ disk.files = mem.files)

\* C37: a per-file pull or push that returns success=false, whatever step of
\* it failed, leaves the tracked state of every path as it was, in memory and
\* on disk (stated for the first file of a run, whose starting state is the
\* state file as the run found it).
C37_FailureLeavesStateUnchanged ==
    ( /\ op.pc = "done"
      /\ DOMAIN run.outcomes = {op.file}
      /\ ~run.outcomes[op.file].success )
    => /\ disk = hist.disk0
       /\ mem.loaded => mem.files = hist.disk0.files

\* the shape every outcome has
OutcomeWellFormed(r) ==
    /\ r.conflict => (~r.success /\ ~r.skipped)
    /\ r.skipped => r.success

\* this step hands out a successful outcome for f that is not a skip
SucceedsNow(f) ==
    /\ f \notin DOMAIN run.outcomes
    /\ f \in DOMAIN run'.outcomes
    /\ run'.outcomes[f].success
    /\ ~run'.outcomes[f].skipped

\* the step is the end of save for the file in hand, after its transfer: the
\* state file now holds the mapping with the transferred content's entry
SavedAfterTransfer(f) ==
    /\ op.file = f /\ op.pc = "saving" /\ op'.pc = "done"
    /\ op.xfer /\ f \in hist.xferred
    /\ disk'.ok /\ disk'.files = mem.files
    /\ get_file_state(disk'.files, f) # None
    /\ disk'.files[f].local_hash = compute_hash(op.content)
    /\ disk'.files[f].remote_microversion = op.ver

\* C39: in every outcome conflict implies not success and not skipped, and
\* skipped implies success; and a successful outcome that is not a skip is
\* handed out only by the step that completes the state save, after the
\* file's transfer.
C39_OutcomeFlagsConsistent ==
    /\ [](\A f \in DOMAIN run.outcomes : OutcomeWellFormed(run.outcomes[f]))
    /\ [][\A f \in elems : SucceedsNow(f) => SavedAfterTransfer(f)]_vars

C39_Witness ==
    /\ op.pc = "done"
    /\ \E f \in DOMAIN run.outcomes : run.outcomes[f].success /\ ~run.outcomes[f].skipped
    /\ \E f \in DOMAIN run.outcomes : run.outcomes[f].conflict

====
